---- MODULE Spec2Model ----
(***************************************************************************)
(* env-lock: the AES-256-GCM envelope codec of crypto.js and its           *)
(* failed-attempt rate limiter (the failedAttempts Map, lastCleanup and    *)
(* the Date.now() clock they read).                                        *)
(*                                                                         *)
(* Strings are sequences of tokens.  A token stands for a run of           *)
(* characters: the separators '|' and ':', the text 'v1', a decimal        *)
(* number, the hex spelling of a byte buffer, or text that is not hex.     *)
(* Byte buffers are sequences of chunks, each chunk a symbolic run of      *)
(* bytes with a length (random bytes, key bytes, a SHA-256 digest, UTF-8   *)
(* bytes, AES-CTR output, a GCM tag).  SHA-256, AES-CTR and GMAC are free  *)
(* constructors: two of their values are equal only if built from equal    *)
(* arguments.                                                              *)
(*                                                                         *)
(* The .env parser of parser.js (parse, unescapeValue, stringify) works on *)
(* strings of single characters, each a token named after its character.   *)
(*                                                                         *)
(* config and configAsync of index.js read OXOG_ENV_KEY from process.env,  *)
(* read and decrypt the .env.lock file, parse it and write the accepted    *)
(* keys into process.env.  configAsync takes two steps: up to the await of *)
(* the file read, and from the completed read on.                          *)
(***************************************************************************)
EXTENDS Integers, Sequences, FiniteSets, TLC

VARIABLES
    now,             \* the value the last Date.now() returned (ms)
    lastCleanup,     \* crypto.js: let lastCleanup
    failedAttempts,  \* crypto.js: the failedAttempts Map, key hash -> record
    lastCall,        \* observation: inputs and outcome of the last API call
    advances,        \* observation: how many times the clock has advanced
    failureLog,      \* observation: per audited key string, the times of its
                     \* decryption failures of the last RATE_LIMIT_WINDOW ms
    processEnv,      \* process.env: variable name -> value
    asyncCalls       \* the configAsync calls that await their file read

vars == <<now, lastCleanup, failedAttempts, lastCall, advances, failureLog, processEnv, asyncCalls>>
host == <<processEnv, asyncCalls>>

(***************************************************************************)
(* Program constants                                                       *)
(***************************************************************************)
IV_LENGTH == 12
KEY_LENGTH == 32
AUTH_TAG_LENGTH == 16
MAX_INPUT_SIZE == 10485760
RATE_LIMIT_WINDOW == 60000
MAX_FAILED_ATTEMPTS == 10
CLEANUP_INTERVAL == 300000
SHA256_LENGTH == 32

(***************************************************************************)
(* Bounds of the model                                                     *)
(***************************************************************************)
\* The clock advances at most MaxAdvances times in a behaviour.
MaxAdvances == 2
\* The lines of a file given to parse, the entries of an object given to
\* stringify and the characters of a value given to unescapeValue are at most:
MaxLines == 2
MaxEntries == 2
MaxEscaped == 4
\* At most MaxPending configAsync calls await their file read at a time.
MaxPending == 1

(***************************************************************************)
(* Error messages                                                          *)
(***************************************************************************)
MsgTextNotString == "Text to encrypt must be a string"
MsgCipherEmpty == "Cipher text must be a non-empty string"
MsgInputTooLarge == "Input too large"
MsgEncKeyEmpty == "Encryption key must be a non-empty string"
MsgDecKeyEmpty == "Decryption key must be a non-empty string"
MsgKeyLength == "Key must be 32 bytes"
MsgRateLimited == "Too many failed decryption attempts. Please wait before trying again."
MsgInvalidOrCorrupted == "Decryption failed: Invalid or corrupted data"
MsgAuthFailed == "Unsupported state or unable to authenticate data"

(***************************************************************************)
(* Tokens, strings, byte buffers                                           *)
(***************************************************************************)
\* A value that is not a JavaScript string (null, undefined, a number).
NotAString == <<[t |-> "notString"]>>

TokBar == [t |-> "bar"]
TokColon == [t |-> "colon"]
TokV1 == [t |-> "v1"]
TokText == [t |-> "text"]
TokDec(n) == [t |-> "dec", n |-> n]
TokHex(buf, upper) == [t |-> "hex", b |-> buf, up |-> upper]
\* The hex digits of buf with one of them replaced by a character that is no
\* hex digit, keep whole bytes before it.
TokHexCut(buf, keep) == [t |-> "hexcut", b |-> buf, keep |-> keep]

RECURSIVE Digits(_)
Digits(n) == IF n < 10 THEN 1 ELSE 1 + Digits(n \div 10)

RECURSIVE ByteLen(_)
ByteLen(buf) == IF buf = <<>> THEN 0 ELSE Head(buf).len + ByteLen(Tail(buf))

CharLen(tok) ==
    CASE tok.t = "bar" -> 1
      [] tok.t = "colon" -> 1
      [] tok.t = "v1" -> 2
      [] tok.t = "text" -> 2
      [] tok.t = "dec" -> Digits(tok.n)
      [] tok.t = "hex" -> 2 * ByteLen(tok.b)
      [] tok.t = "hexcut" -> 2 * ByteLen(tok.b)

\* Buffer.byteLength(s, 'utf8') of a string of ASCII tokens.
RECURSIVE StrByteLength(_)
StrByteLength(s) == IF s = <<>> THEN 0 ELSE CharLen(Head(s)) + StrByteLength(Tail(s))

\* String.prototype.split(sep) for a one-character separator.
RECURSIVE SplitFrom(_, _, _, _)
SplitFrom(s, sep, i, field) ==
    IF i > Len(s) THEN <<field>>
    ELSE IF s[i].t = sep THEN <<field>> \o SplitFrom(s, sep, i + 1, <<>>)
    ELSE SplitFrom(s, sep, i + 1, Append(field, s[i]))

Split(s, sep) == SplitFrom(s, sep, 1, <<>>)

\* cipherText.startsWith('v1|')
StartsWithV1(s) == Len(s) >= 2 /\ s[1].t = "v1" /\ s[2].t = "bar"

\* buffer.toString('hex'): lower-case hex digits, the empty string for no bytes.
ToHex(buf) == IF ByteLen(buf) = 0 THEN <<>> ELSE <<TokHex(buf, FALSE)>>

\* Buffer.from(s, 'hex'): decodes pairs of hex digits of either letter case and
\* stops at the first character that is no hex digit; an odd trailing digit is
\* dropped.
RECURSIVE FromHex(_)
FromHex(s) ==
    IF s = <<>> THEN <<>>
    ELSE LET tok == Head(s) IN
         CASE tok.t = "hex" -> tok.b \o FromHex(Tail(s))
           [] tok.t = "hexcut" ->
                IF tok.keep = 0 THEN <<>>
                ELSE <<[t |-> "prefix", of |-> tok.b, len |-> tok.keep]>>
           [] tok.t = "dec" ->
                LET d == Digits(tok.n)
                    bytes == IF d \div 2 = 0 THEN <<>>
                             ELSE <<[t |-> "digits", n |-> tok.n, len |-> d \div 2]>>
                IN  IF d % 2 = 0 THEN bytes \o FromHex(Tail(s)) ELSE bytes
           [] OTHER -> <<>>

\* crypto.createHash('sha256').update(s).digest('hex')
Sha256Hex(s) == <<TokHex(<<[t |-> "sha256", of |-> s, len |-> SHA256_LENGTH]>>, FALSE)>>

(***************************************************************************)
(* UTF-8: a JavaScript string is a sequence of UTF-16 code units           *)
(***************************************************************************)
\* Code units: "a" (ASCII), "e2" (a two-byte character), "fffd" (U+FFFD),
\* "hi" / "lo" (a high / low surrogate); n repeats an ASCII unit n times.
\* "file" is a run of ASCII characters given one by one, as the parser reads
\* them.
Unit(u) == [u |-> u, n |-> 1]
Run(n) == [u |-> "a", n |-> n]
FileText(chars) == IF chars = <<>> THEN <<>> ELSE <<[u |-> "file", n |-> 1, chars |-> chars]>>

\* The UTF-8 encoding Node applies to a string: a surrogate pair becomes one
\* four-byte sequence, an unpaired surrogate is replaced by U+FFFD.
RECURSIVE Utf8Encode(_)
Utf8Encode(text) ==
    IF text = <<>> THEN <<>>
    ELSE LET c == Head(text) IN
         CASE c.u = "a" -> <<[t |-> "utf8", cp |-> "a", n |-> c.n, len |-> c.n]>> \o Utf8Encode(Tail(text))
           [] c.u = "e2" -> <<[t |-> "utf8", cp |-> "e2", n |-> 1, len |-> 2]>> \o Utf8Encode(Tail(text))
           [] c.u = "fffd" -> <<[t |-> "utf8", cp |-> "fffd", n |-> 1, len |-> 3]>> \o Utf8Encode(Tail(text))
           [] c.u = "hi" ->
                IF Len(text) >= 2 /\ text[2].u = "lo"
                THEN <<[t |-> "utf8", cp |-> "astral", n |-> 1, len |-> 4]>> \o Utf8Encode(Tail(Tail(text)))
                ELSE <<[t |-> "utf8", cp |-> "fffd", n |-> 1, len |-> 3]>> \o Utf8Encode(Tail(text))
           [] c.u = "lo" -> <<[t |-> "utf8", cp |-> "fffd", n |-> 1, len |-> 3]>> \o Utf8Encode(Tail(text))
           [] c.u = "file" ->
                <<[t |-> "utf8", cp |-> "file", n |-> 1, len |-> Len(c.chars), chars |-> c.chars]>>
                    \o Utf8Encode(Tail(text))

\* Decoding bytes as UTF-8; bytes that are no UTF-8 text decode to U+FFFD.
RECURSIVE Utf8Decode(_)
Utf8Decode(buf) ==
    IF buf = <<>> THEN <<>>
    ELSE LET c == Head(buf) IN
         IF c.t = "utf8"
         THEN (IF c.cp = "astral" THEN <<Unit("hi"), Unit("lo")>>
               ELSE IF c.cp = "file" THEN FileText(c.chars)
               ELSE <<[u |-> c.cp, n |-> c.n]>>)
              \o Utf8Decode(Tail(buf))
         ELSE <<Unit("fffd")>> \o Utf8Decode(Tail(buf))

\* Buffer.byteLength(text, 'utf8')
Utf8ByteLength(text) == ByteLen(Utf8Encode(text))

(***************************************************************************)
(* AES-256-GCM                                                             *)
(***************************************************************************)
\* cipher.update + cipher.final: CTR mode, as many bytes out as in.
AesCtr(key, iv, plain) ==
    IF ByteLen(plain) = 0 THEN <<>>
    ELSE <<[t |-> "aesctr", k |-> key, iv |-> iv, pt |-> plain, len |-> ByteLen(plain)]>>

\* cipher.getAuthTag()
GcmTag(key, iv, data) ==
    <<[t |-> "gcmtag", k |-> key, iv |-> iv, ct |-> data, len |-> AUTH_TAG_LENGTH]>>

\* decipher.update: the CTR keystream of (key, iv) removed from data.
AesCtrInverse(key, iv, data) ==
    IF ByteLen(data) = 0 THEN <<>>
    ELSE IF Len(data) = 1 /\ data[1].t = "aesctr" /\ data[1].k = key /\ data[1].iv = iv
         THEN data[1].pt
         ELSE <<[t |-> "noise", k |-> key, iv |-> iv, of |-> data, len |-> ByteLen(data)]>>

\* Mutant: decipher.final() accepts every tag.
GcmUnchecked(key, iv, tag, data) == TRUE

\* decipher.final() throws unless the tag set by setAuthTag authenticates data.
GcmAuthentic(key, iv, tag, data) == tag = GcmTag(key, iv, data)

(***************************************************************************)
(* Input validation and results                                            *)
(***************************************************************************)
isValidString(value, allowEmpty) ==
    /\ value # NotAString
    /\ (allowEmpty \/ value # <<>>)

Returned(v) == [status |-> "ok", value |-> v, message |-> "", cause |-> "none"]
Thrown(kind, msg, why) == [status |-> kind, value |-> NotAString, message |-> msg, cause |-> why]

(***************************************************************************)
(* encrypt(text, keyHex), with the IV that crypto.randomBytes drew and the  *)
(* timestamp that Date.now() returned                                       *)
(***************************************************************************)
EncryptedPayload(text, keyBuffer, iv) ==
    LET encrypted == ToHex(AesCtr(keyBuffer, iv, Utf8Encode(text)))
        authTag == GcmTag(keyBuffer, iv, AesCtr(keyBuffer, iv, Utf8Encode(text)))
    IN  ToHex(iv) \o <<TokColon>> \o ToHex(authTag) \o <<TokColon>> \o encrypted

\* Mutant: the bare payload of the legacy format.
EnvelopeLegacy(payload, timestamp) == payload

Envelope(payload, timestamp) ==
    <<TokV1, TokBar, TokDec(timestamp), TokBar>> \o Sha256Hex(payload) \o <<TokBar>> \o payload

encrypt(text, keyHex, iv, timestamp) ==
    IF ~isValidString(text, TRUE) THEN Thrown("InvalidInput", MsgTextNotString, "text")
    ELSE IF Utf8ByteLength(text) > MAX_INPUT_SIZE THEN Thrown("InputTooLarge", MsgInputTooLarge, "size")
    ELSE IF ~isValidString(keyHex, FALSE) THEN Thrown("InvalidInput", MsgEncKeyEmpty, "key")
    ELSE LET keyBuffer == FromHex(keyHex) IN
         IF ByteLen(keyBuffer) # KEY_LENGTH THEN Thrown("InvalidKey", MsgKeyLength, "keyLength")
         ELSE Returned(Envelope(EncryptedPayload(text, keyBuffer, iv), timestamp))

(***************************************************************************)
(* The try block of decrypt: what it returns or throws                     *)
(***************************************************************************)
DecryptPayload(encryptedPayload, keyBuffer) ==
    LET parts == Split(encryptedPayload, "colon") IN
    IF Len(parts) # 3 THEN Thrown("Error", MsgInvalidOrCorrupted, "payloadFields")
    ELSE LET iv == FromHex(parts[1])
             authTag == FromHex(parts[2])
             encryptedData == FromHex(parts[3])
         IN  IF ByteLen(iv) # IV_LENGTH THEN Thrown("Error", MsgInvalidOrCorrupted, "ivLength")
             ELSE IF ByteLen(authTag) # AUTH_TAG_LENGTH THEN Thrown("Error", MsgInvalidOrCorrupted, "tagLength")
             ELSE IF ~GcmAuthentic(keyBuffer, iv, authTag, encryptedData)
                  THEN Thrown("Error", MsgAuthFailed, "authentication")
             ELSE Returned(Utf8Decode(AesCtrInverse(keyBuffer, iv, encryptedData)))

ChecksumMatches(actualChecksum, expectedChecksum) == actualChecksum = expectedChecksum

\* Mutant: only the v1 format is read; a bare payload is a format error.
DecryptTryV1Only(cipherText, keyBuffer) ==
    IF StartsWithV1(cipherText)
    THEN LET metaParts == Split(cipherText, "bar") IN
         IF Len(metaParts) # 4 THEN Thrown("Error", MsgInvalidOrCorrupted, "metaFields")
         ELSE IF ~ChecksumMatches(Sha256Hex(metaParts[4]), metaParts[3])
              THEN Thrown("Error", MsgInvalidOrCorrupted, "checksum")
         ELSE DecryptPayload(metaParts[4], keyBuffer)
    ELSE Thrown("Error", MsgInvalidOrCorrupted, "metaFields")

DecryptTry(cipherText, keyBuffer) ==
    IF StartsWithV1(cipherText)
    THEN LET metaParts == Split(cipherText, "bar") IN
         IF Len(metaParts) # 4 THEN Thrown("Error", MsgInvalidOrCorrupted, "metaFields")
         ELSE IF ~ChecksumMatches(Sha256Hex(metaParts[4]), metaParts[3])
              THEN Thrown("Error", MsgInvalidOrCorrupted, "checksum")
         ELSE DecryptPayload(metaParts[4], keyBuffer)
    ELSE DecryptPayload(cipherText, keyBuffer)

\* Mutant: the catch block passes the message of the caught error on.
DecryptCatchLeaky(error) == Thrown("InvalidOrCorrupted", error.message, error.cause)

\* The catch block of decrypt: whatever was thrown, one generic error leaves.
DecryptCatch(error) == Thrown("InvalidOrCorrupted", MsgInvalidOrCorrupted, error.cause)

(***************************************************************************)
(* The Attempt Tracker: the failedAttempts Map and its operations          *)
(***************************************************************************)
MapHas(m, h) == h \in DOMAIN m
MapSet(m, h, v) == [x \in DOMAIN m \cup {h} |-> IF x = h THEN v ELSE m[x]]
MapDelete(m, h) == [x \in DOMAIN m \ {h} |-> m[x]]

Attempts(c, first) == [count |-> c, firstAttempt |-> first]

\* Mutant: one hash for every key, a global limiter.
KeyHashGlobal(keyHex) == Sha256Hex(<<>>)

\* Mutant: the hash of the bytes the key string decodes to.
KeyHashOfBytes(keyHex) == Sha256Hex(ToHex(FromHex(keyHex)))

\* The hash a key string is tracked under.
KeyHash(keyHex) == Sha256Hex(keyHex)

\* Mutant: clearing one key clears them all.
clearRateLimitAll(fa, keyHash) == <<>>

clearRateLimit(fa, keyHash) == MapDelete(fa, keyHash)

\* Mutant: the sweep empties the Map.
cleanupFailedAttemptsAll(fa, t) == <<>>

\* cleanupFailedAttempts at clock reading t: the Map it leaves.
cleanupFailedAttempts(fa, t) ==
    LET cutoff == t - RATE_LIMIT_WINDOW
        kept == {h \in DOMAIN fa : ~(fa[h].firstAttempt < cutoff)}
    IN  [h \in kept |-> fa[h]]

\* Mutant: a window that never expires.
WindowExpiredNever(t, attempts) == FALSE

WindowExpired(t, attempts) == t - attempts.firstAttempt > RATE_LIMIT_WINDOW

\* Mutant: the threshold compared with > instead of >=.
ThresholdExceeded(attempts) == attempts.count > MAX_FAILED_ATTEMPTS

ThresholdReached(attempts) == attempts.count >= MAX_FAILED_ATTEMPTS

\* Mutant: a rate-limited check restarts the key's window.
isRateLimitedExtending(fa, lc, keyHex, t1, t2) ==
    LET keyHash == KeyHash(keyHex)
        attempts == IF MapHas(fa, keyHash) THEN fa[keyHash] ELSE Attempts(0, t1)
    IN  IF WindowExpired(t1, attempts)
        THEN [limited |-> FALSE, swept |-> FALSE, lc |-> lc,
              fa |-> MapSet(fa, keyHash, Attempts(0, t1))]
        ELSE IF ThresholdReached(attempts)
        THEN [limited |-> TRUE, swept |-> FALSE, lc |-> lc,
              fa |-> MapSet(fa, keyHash, Attempts(attempts.count, t1))]
        ELSE [limited |-> FALSE, swept |-> FALSE, lc |-> lc, fa |-> fa]

\* Mutant: every check that lets the call through clears the key's count.
isRateLimitedResetting(fa, lc, keyHex, t1, t2) ==
    LET keyHash == KeyHash(keyHex)
        attempts == IF MapHas(fa, keyHash) THEN fa[keyHash] ELSE Attempts(0, t1)
    IN  IF WindowExpired(t1, attempts) \/ ~ThresholdReached(attempts)
        THEN [limited |-> FALSE, swept |-> FALSE, lc |-> lc,
              fa |-> MapSet(fa, keyHash, Attempts(0, t1))]
        ELSE [limited |-> TRUE, swept |-> FALSE, lc |-> lc, fa |-> fa]

\* Mutant: a check deletes the expired record of its key.
isRateLimitedDeleting(fa, lc, keyHex, t1, t2) ==
    LET sweep == t1 - lc > CLEANUP_INTERVAL
        fa1 == IF sweep THEN cleanupFailedAttempts(fa, t2) ELSE fa
        lc1 == IF sweep THEN t2 ELSE lc
        keyHash == KeyHash(keyHex)
        attempts == IF MapHas(fa1, keyHash) THEN fa1[keyHash] ELSE Attempts(0, t1)
    IN  IF WindowExpired(t1, attempts)
        THEN [limited |-> FALSE, swept |-> sweep, lc |-> lc1, fa |-> MapDelete(fa1, keyHash)]
        ELSE [limited |-> ThresholdReached(attempts), swept |-> sweep, lc |-> lc1, fa |-> fa1]

\* Mutant: every check sweeps.
isRateLimitedSweeping(fa, lc, keyHex, t1, t2) ==
    LET fa1 == cleanupFailedAttempts(fa, t2)
        keyHash == KeyHash(keyHex)
        attempts == IF MapHas(fa1, keyHash) THEN fa1[keyHash] ELSE Attempts(0, t1)
    IN  IF WindowExpired(t1, attempts)
        THEN [limited |-> FALSE, swept |-> TRUE, lc |-> t2,
              fa |-> MapSet(fa1, keyHash, Attempts(0, t1))]
        ELSE [limited |-> ThresholdReached(attempts), swept |-> TRUE, lc |-> t2, fa |-> fa1]

\* isRateLimited(keyHex): t1 is the clock reading of isRateLimited, t2 the
\* later reading of cleanupFailedAttempts when it runs.  Gives the answer and
\* the Map and lastCleanup it leaves.
isRateLimited(fa, lc, keyHex, t1, t2) ==
    LET sweep == t1 - lc > CLEANUP_INTERVAL
        fa1 == IF sweep THEN cleanupFailedAttempts(fa, t2) ELSE fa
        lc1 == IF sweep THEN t2 ELSE lc
        keyHash == KeyHash(keyHex)
        attempts == IF MapHas(fa1, keyHash) THEN fa1[keyHash] ELSE Attempts(0, t1)
    IN  IF WindowExpired(t1, attempts)
        THEN [limited |-> FALSE, swept |-> sweep, lc |-> lc1,
              fa |-> MapSet(fa1, keyHash, Attempts(0, t1))]
        ELSE [limited |-> ThresholdReached(attempts), swept |-> sweep, lc |-> lc1, fa |-> fa1]

\* Mutant: the count is incremented whether or not the window has expired.
recordFailedAttemptNoReset(fa, keyHex, t) ==
    LET keyHash == KeyHash(keyHex)
        attempts == IF MapHas(fa, keyHash) THEN fa[keyHash] ELSE Attempts(0, t)
    IN  MapSet(fa, keyHash, Attempts(attempts.count + 1, attempts.firstAttempt))

\* Mutant: a failure in a running window is not counted.
recordFailedAttemptLost(fa, keyHex, t) ==
    LET keyHash == KeyHash(keyHex)
        attempts == IF MapHas(fa, keyHash) THEN fa[keyHash] ELSE Attempts(0, t)
    IN  IF WindowExpired(t, attempts) \/ attempts.count = 0
        THEN MapSet(fa, keyHash, Attempts(1, t))
        ELSE MapSet(fa, keyHash, attempts)

\* Mutant: a failure in a running window counts twice.
recordFailedAttemptTwice(fa, keyHex, t) ==
    LET keyHash == KeyHash(keyHex)
        attempts == IF MapHas(fa, keyHash) THEN fa[keyHash] ELSE Attempts(0, t)
    IN  IF WindowExpired(t, attempts)
        THEN MapSet(fa, keyHash, Attempts(1, t))
        ELSE MapSet(fa, keyHash, Attempts(attempts.count + 2, attempts.firstAttempt))

\* recordFailedAttempt(keyHex) at clock reading t: the Map it leaves.
recordFailedAttempt(fa, keyHex, t) ==
    LET keyHash == KeyHash(keyHex)
        attempts == IF MapHas(fa, keyHash) THEN fa[keyHash] ELSE Attempts(0, t)
    IN  IF WindowExpired(t, attempts)
        THEN MapSet(fa, keyHash, Attempts(1, t))
        ELSE MapSet(fa, keyHash, Attempts(attempts.count + 1, attempts.firstAttempt))

(***************************************************************************)
(* decrypt(cipherText, keyHex) from tracker state (fa, lc) at clock t0.    *)
(* d1, d2, d3 are the milliseconds that pass before the clock readings of  *)
(* isRateLimited, cleanupFailedAttempts and recordFailedAttempt.  Gives    *)
(* the result, the tracker state left, the last clock reading and which    *)
(* of the three readings were taken.                                       *)
(***************************************************************************)
Outcome(result, fa, lc, t, reads) ==
    [result |-> result, fa |-> fa, lc |-> lc, now |-> t, reads |-> reads]

decrypt(fa, lc, t0, cipherText, keyHex, d1, d2, d3) ==
    IF ~isValidString(cipherText, FALSE)
    THEN Outcome(Thrown("InvalidInput", MsgCipherEmpty, "cipherText"), fa, lc, t0, {})
    ELSE IF StrByteLength(cipherText) > MAX_INPUT_SIZE * 2
    THEN Outcome(Thrown("InputTooLarge", MsgInputTooLarge, "size"), fa, lc, t0, {})
    ELSE IF ~isValidString(keyHex, FALSE)
    THEN Outcome(Thrown("InvalidInput", MsgDecKeyEmpty, "key"), fa, lc, t0, {})
    ELSE
    LET t1 == t0 + d1
        gate == isRateLimited(fa, lc, keyHex, t1, t1 + d2)
        tg == IF gate.swept THEN t1 + d2 ELSE t1
        rg == IF gate.swept THEN {1, 2} ELSE {1}
        keyBuffer == FromHex(keyHex)
    IN  IF gate.limited
        THEN Outcome(Thrown("RateLimited", MsgRateLimited, "rateLimit"), gate.fa, gate.lc, tg, rg)
        ELSE IF ByteLen(keyBuffer) # KEY_LENGTH
        THEN Outcome(Thrown("InvalidKey", MsgKeyLength, "keyLength"), gate.fa, gate.lc, tg, rg)
        ELSE LET tried == DecryptTry(cipherText, keyBuffer) IN
             IF tried.status = "ok"
             THEN Outcome(tried, gate.fa, gate.lc, tg, rg)
             ELSE Outcome(DecryptCatch(tried),
                          recordFailedAttempt(gate.fa, keyHex, tg + d3), gate.lc,
                          tg + d3, rg \cup {3})

(***************************************************************************)
(* Inputs                                                                  *)
(***************************************************************************)
KeyBytes(id) == <<[t |-> "key", id |-> id, len |-> KEY_LENGTH]>>
RandomBytes(id, n) == <<[t |-> "random", id |-> id, len |-> n]>>

\* generateKey(): 64 lower-case hex characters.
KeyA == ToHex(KeyBytes(1))
KeyB == ToHex(KeyBytes(2))
\* The hex digits of KeyA in upper case.
KeyAUpper == <<TokHex(KeyBytes(1), TRUE)>>
\* 32 hex characters: 16 bytes.
KeyShort == ToHex(RandomBytes(3, 16))

ValidKeys == {KeyA, KeyB}

\* The steps by which time passes between two calls, in ms.
TickSteps == {1, RATE_LIMIT_WINDOW, CLEANUP_INTERVAL}
\* The ms that pass before the clock readings of isRateLimited,
\* cleanupFailedAttempts and recordFailedAttempt inside one decrypt call: the
\* clock ticks at most once during a call.
InCallSchedules == {<<0, 0, 0>>, <<1, 0, 0>>, <<0, 1, 0>>, <<0, 0, 1>>}

SmallText == <<Unit("a")>>
EnvelopeFor(keyHex) == encrypt(SmallText, keyHex, RandomBytes(1, IV_LENGTH), 0).value

TrackerKeys == {KeyA, KeyB}
TrackerCipherTexts == {EnvelopeFor(KeyA), EnvelopeFor(KeyB)}

(***************************************************************************)
(* Actions                                                                 *)
(***************************************************************************)
NoCall == [op |-> "none", key |-> NotAString, arg |-> NotAString, result |-> Returned(NotAString)]
Call(op, key, arg, result) == [op |-> op, key |-> key, arg |-> arg, result |-> result]

Used(d) == IF d = 0 THEN 0 ELSE 1

\* The log at clock reading t: entries older than the window are dropped.
Recent(log, t) == SelectSeq(log, LAMBDA at : at >= t - RATE_LIMIT_WINDOW)
Pruned(t) == [k \in DOMAIN failureLog |-> Recent(failureLog[k], t)]
Logged(t, keyHex, result) ==
    [k \in DOMAIN failureLog |->
        IF k = keyHex /\ result.status = "InvalidOrCorrupted"
        THEN Append(Recent(failureLog[k], t), t)
        ELSE Recent(failureLog[k], t)]

InitTracker ==
    /\ now = 0
    /\ lastCleanup = 0
    /\ failedAttempts = <<>>
    /\ lastCall = NoCall
    /\ advances = 0
    /\ processEnv = <<>>
    /\ asyncCalls = <<>>

Init == InitTracker /\ failureLog = <<>>

\* Time passes between two calls.
Tick(d) ==
    /\ advances < MaxAdvances
    /\ now' = now + d
    /\ advances' = advances + 1
    /\ lastCall' = NoCall
    /\ failureLog' = Pruned(now + d)
    /\ UNCHANGED <<lastCleanup, failedAttempts, host>>

\* One call of decrypt(cipherText, keyHex).
DecryptCall(cipherText, keyHex) ==
    \E d \in InCallSchedules :
        /\ advances + Used(d[1] + d[2] + d[3]) <= MaxAdvances
        /\ \E out \in {decrypt(failedAttempts, lastCleanup, now, cipherText, keyHex, d[1], d[2], d[3])} :
            /\ \A i \in 1..3 : (i \notin out.reads) => d[i] = 0
            /\ now' = out.now
            /\ advances' = advances + Used(d[1] + d[2] + d[3])
            /\ failedAttempts' = out.fa
            /\ lastCleanup' = out.lc
            /\ lastCall' = Call("decrypt", keyHex, cipherText, out.result)
            /\ failureLog' = Logged(out.now, keyHex, out.result)
            /\ UNCHANGED host

\* One call of encrypt(text, keyHex): crypto.randomBytes gives iv, and
\* Date.now() is read for the timestamp when the call gets that far.
EncryptCall(text, keyHex, iv) ==
    \E d \in {0, 1} :
        /\ advances + Used(d) <= MaxAdvances
        /\ \E result \in {encrypt(text, keyHex, iv, now + d)} :
            /\ result.status # "ok" => d = 0
            /\ now' = now + d
            /\ advances' = advances + Used(d)
            /\ lastCall' = Call("encrypt", keyHex, text, result)
            /\ failureLog' = Pruned(now + d)
            /\ UNCHANGED <<lastCleanup, failedAttempts, host>>

\* One call of clearRateLimit(keyHash).
ClearCall(keyHash) ==
    /\ failedAttempts' = clearRateLimit(failedAttempts, keyHash)
    /\ lastCall' = Call("clearRateLimit", keyHash, NotAString, Returned(NotAString))
    /\ UNCHANGED <<now, lastCleanup, advances, failureLog, host>>

Next ==
    \/ \E d \in TickSteps : Tick(d)
    \/ \E c \in TrackerCipherTexts, k \in TrackerKeys : DecryptCall(c, k)
    \/ \E k \in TrackerKeys : ClearCall(KeyHash(k))

Spec == Init /\ [][Next]_vars

(***************************************************************************)
(* One key under audit: every failure of KeyA is logged with its time      *)
(***************************************************************************)
InitAudit == InitTracker /\ failureLog = [k \in {KeyA} |-> <<>>]

NextAudit ==
    \/ \E d \in TickSteps : Tick(d)
    \/ \E c \in TrackerCipherTexts : DecryptCall(c, KeyA)

SpecAudit == InitAudit /\ [][NextAudit]_vars

(***************************************************************************)
(* Two spellings of one key                                                *)
(***************************************************************************)
SpellingKeys == {KeyA, KeyAUpper}

InitSpelling == Init

NextSpelling ==
    \/ \E d \in TickSteps : Tick(d)
    \/ \E c \in TrackerCipherTexts, k \in SpellingKeys : DecryptCall(c, k)

SpecSpelling == InitSpelling /\ [][NextSpelling]_vars

(***************************************************************************)
(* The codec exercised on its own: encrypt and decrypt calls on texts,     *)
(* keys and envelopes of every shape                                       *)
(***************************************************************************)
Iv1 == RandomBytes(1, IV_LENGTH)
Iv2 == RandomBytes(2, IV_LENGTH)

\* Texts within the size limit of encrypt.
TextsWithinLimit ==
    { <<>>, SmallText, <<Unit("a"), Unit("e2")>>, <<Unit("hi"), Unit("lo")>>,
      <<Unit("hi")>>, <<Run(MAX_INPUT_SIZE)>> }
CodecTexts == TextsWithinLimit \cup {<<Run(MAX_INPUT_SIZE + 1)>>, NotAString}
CodecEncryptKeys == {KeyA, KeyShort, <<>>}
CodecDecryptKeys == {KeyA, KeyShort, <<>>}

PayloadOf(text, keyHex) == EncryptedPayload(text, FromHex(keyHex), Iv1)
\* The envelopes encrypt returned for the texts within the limit.
IssuedEnvelopes == {encrypt(p, k, Iv1, 0).value : p \in TextsWithinLimit, k \in ValidKeys}
\* Envelopes that are bare payloads, and envelopes that are damaged.
LegacyTexts == {<<>>, SmallText, <<Unit("hi"), Unit("lo")>>}
LegacyEnvelopes == {PayloadOf(p, KeyA) : p \in LegacyTexts} \cup {PayloadOf(SmallText, KeyB)}
ShortIvPayload ==
    ToHex(RandomBytes(1, 8)) \o <<TokColon>> \o ToHex(GcmTag(KeyBytes(1), Iv1, <<>>)) \o <<TokColon>>
ShortTagPayload ==
    ToHex(Iv1) \o <<TokColon>> \o ToHex(RandomBytes(4, 8)) \o <<TokColon>>
TwoFieldPayload == ToHex(Iv1) \o <<TokColon>> \o ToHex(GcmTag(KeyBytes(1), Iv1, <<>>))
DamagedEnvelopes ==
    { <<TokV1, TokBar, TokDec(0), TokBar>> \o PayloadOf(SmallText, KeyA),
      <<TokV1, TokBar, TokDec(0), TokBar>> \o Sha256Hex(PayloadOf(<<>>, KeyA))
          \o <<TokBar>> \o PayloadOf(SmallText, KeyA),
      Envelope(TwoFieldPayload, 0),
      Envelope(ShortIvPayload, 0),
      Envelope(ShortTagPayload, 0),
      <<TokText>>,
      <<>>,
      NotAString }
CodecCipherTexts == IssuedEnvelopes \cup LegacyEnvelopes \cup DamagedEnvelopes

NextCodec ==
    \/ \E p \in CodecTexts, k \in CodecEncryptKeys, iv \in {Iv1, Iv2} : EncryptCall(p, k, iv)
    \/ \E c \in CodecCipherTexts, k \in CodecDecryptKeys : DecryptCall(c, k)

SpecCodec == Init /\ [][NextCodec]_vars

(***************************************************************************)
(* Tampering: decrypt calls on envelopes of KeyA in which one character of *)
(* one hex segment was changed                                             *)
(***************************************************************************)
\* The ways one character of a hex field changes: to a hex digit of another
\* value, to the upper-case letter of the same value, or to a character that
\* is no hex digit, in the first byte or in the last.
ValueChanges == {"digit", "nonHexFirst", "nonHexLast"}
Changes == ValueChanges \cup {"case"}

ChangedField(field, change) ==
    LET buf == field[1].b IN
    CASE change = "digit" -> <<TokHex(<<[t |-> "altered", of |-> buf, len |-> ByteLen(buf)]>>, FALSE)>>
      [] change = "case" -> <<TokHex(buf, TRUE)>>
      [] change = "nonHexFirst" -> <<TokHexCut(buf, 0)>>
      [] change = "nonHexLast" -> <<TokHexCut(buf, ByteLen(buf) - 1)>>

\* The payload with segment seg (1 iv, 2 tag, 3 data) changed.
ChangedPayload(payload, seg, change) ==
    LET parts == Split(payload, "colon")
        changed == [i \in 1..3 |-> IF i = seg THEN ChangedField(parts[i], change) ELSE parts[i]]
    IN  changed[1] \o <<TokColon>> \o changed[2] \o <<TokColon>> \o changed[3]

\* The v1 envelope of the payload with the segment changed and the other
\* fields, the checksum among them, left as encrypt wrote them.
ChangedEnvelope(payload, seg, change) ==
    <<TokV1, TokBar, TokDec(0), TokBar>> \o Sha256Hex(payload) \o <<TokBar>>
        \o ChangedPayload(payload, seg, change)

TamperedV1(changes) ==
    {ChangedEnvelope(PayloadOf(SmallText, KeyA), seg, c) : seg \in 1..3, c \in changes}
TamperedLegacy(changes) ==
    {ChangedPayload(PayloadOf(SmallText, KeyA), seg, c) : seg \in 1..3, c \in changes}
TamperCipherTexts ==
    TamperedV1(Changes) \cup TamperedLegacy(Changes)
        \cup {EnvelopeFor(KeyA), PayloadOf(SmallText, KeyA)}

NextTamper == \E c \in TamperCipherTexts : DecryptCall(c, KeyA)

SpecTamper == Init /\ [][NextTamper]_vars

(***************************************************************************)
(* The sweep: the tracker over times as long as the cleanup interval       *)
(***************************************************************************)
SweepTickSteps == {CLEANUP_INTERVAL, CLEANUP_INTERVAL + 1}

NextSweep ==
    \/ \E d \in SweepTickSteps : Tick(d)
    \/ \E c \in TrackerCipherTexts, k \in TrackerKeys : DecryptCall(c, k)

SpecSweep == Init /\ [][NextSweep]_vars

(***************************************************************************)
(* parser.js: strings as sequences of characters                           *)
(***************************************************************************)
\* Characters: "K", "L", "a", "b" (letters), "n", "r", "t" (the letters an
\* escape pair ends with), "eq" (=), "hash" (#), "dq" ("), "sq" ('), "bs" (\),
\* "sp", "tab", "cr", "vt" (white space), "lf" (newline), "nul" (U+0000),
\* "us" (_), "1" (a digit), "dash" (-).  A token named in Names stands for
\* that name, a run of letters and underscores.
Ch(c) == [t |-> c]
RECURSIVE Str(_)
Str(names) == IF names = <<>> THEN <<>> ELSE <<Ch(Head(names))>> \o Str(Tail(names))

\* The characters String.prototype.trim removes, newline apart.
WhiteSpace == {"sp", "tab", "cr", "vt"}

\* Mutant: trailing white space is kept.
TrimEndNothing(s) == s

RECURSIVE TrimEnd(_)
TrimEnd(s) ==
    IF s # <<>> /\ s[Len(s)].t \in WhiteSpace \cup {"lf"} THEN TrimEnd(SubSeq(s, 1, Len(s) - 1)) ELSE s

RECURSIVE TrimStart(_)
TrimStart(s) ==
    IF s # <<>> /\ s[1].t \in WhiteSpace \cup {"lf"} THEN TrimStart(Tail(s)) ELSE s

Trim(s) == TrimStart(TrimEnd(s))

\* String.prototype.indexOf(c), counted from 1; 0 when c does not occur.
RECURSIVE IndexFrom(_, _, _)
IndexFrom(s, c, i) ==
    IF i > Len(s) THEN 0 ELSE IF s[i].t = c THEN i ELSE IndexFrom(s, c, i + 1)
IndexOf(s, c) == IndexFrom(s, c, 1)

Includes(s, c) == IndexOf(s, c) # 0
EndsWith(s, c) == s # <<>> /\ s[Len(s)].t = c

\* String.prototype.substring(start, end), indices counted from 0: the
\* arguments are swapped when start > end.
Substring(s, start, end) ==
    LET lo == IF start <= end THEN start ELSE end
        hi == IF start <= end THEN end ELSE start
    IN  SubSeq(s, lo + 1, hi)

\* String.prototype.replace(/\\x/g, out): every pair of a backslash and the
\* character x, found from left to right, becomes out.
RECURSIVE ReplacePair(_, _, _)
ReplacePair(s, x, out) ==
    IF s = <<>> THEN <<>>
    ELSE IF Len(s) >= 2 /\ s[1].t = "bs" /\ s[2].t = x
         THEN <<Ch(out)>> \o ReplacePair(Tail(Tail(s)), x, out)
         ELSE <<Head(s)>> \o ReplacePair(Tail(s), x, out)

\* String.prototype.replace(/x/g, out) for one character x.
ReplaceChar(s, x, out) == [i \in DOMAIN s |-> IF s[i].t = x THEN Ch(out) ELSE s[i]]

\* String.prototype.replace(/x/g, '\\x'): a backslash before every x.
RECURSIVE EscapeChar(_, _, _)
EscapeChar(s, x, letter) ==
    IF s = <<>> THEN <<>>
    ELSE (IF Head(s).t = x THEN <<Ch("bs"), Ch(letter)>> ELSE <<Head(s)>>)
             \o EscapeChar(Tail(s), x, letter)

(***************************************************************************)
(* parser.js: unescapeValue, parse, stringify                              *)
(***************************************************************************)
unescapeValue(value) ==
    ReplaceChar(
        ReplacePair(
            ReplacePair(
                ReplacePair(
                    ReplacePair(
                        ReplacePair(value, "bs", "nul"),
                        "n", "lf"),
                    "r", "cr"),
                "t", "tab"),
            "dq", "dq"),
        "nul", "bs")

\* The inner loop of parse: lines from index i on are added to the value until
\* one ends, trailing white space apart, with a double quote.  Gives the
\* value and the index the loop stops at.
RECURSIVE Multiline(_, _, _)

\* Mutant: the loop stops one line after the closing line.
MultilineSkipping(lines, i, multilineValue) ==
    IF i > Len(lines) THEN [value |-> multilineValue, i |-> i]
    ELSE LET nextLine == lines[i]
             trimmedNextLine == TrimEnd(nextLine)
         IN  IF EndsWith(trimmedNextLine, "dq")
             THEN [value |-> multilineValue \o <<Ch("lf")>>
                                 \o Substring(trimmedNextLine, 0, Len(trimmedNextLine) - 1),
                   i |-> i + 1]
             ELSE Multiline(lines, i + 1, multilineValue \o <<Ch("lf")>> \o nextLine)

Multiline(lines, i, multilineValue) ==
    IF i > Len(lines) THEN [value |-> multilineValue, i |-> i]
    ELSE LET nextLine == lines[i]
             trimmedNextLine == TrimEnd(nextLine)
         IN  IF EndsWith(trimmedNextLine, "dq")
             THEN [value |-> multilineValue \o <<Ch("lf")>>
                                 \o Substring(trimmedNextLine, 0, Len(trimmedNextLine) - 1),
                   i |-> i]
             ELSE Multiline(lines, i + 1, multilineValue \o <<Ch("lf")>> \o nextLine)

\* The value of the entry on line i, whose text after '=' is value, and the
\* index of the last line the entry takes.
EntryValue(lines, i, value) ==
    IF value = <<>> THEN [value |-> value, i |-> i]
    ELSE LET firstChar == value[1].t
             lastChar == value[Len(value)].t
         IN  IF firstChar = "sq" /\ lastChar = "sq"
             THEN [value |-> Substring(value, 1, Len(value) - 1), i |-> i]
             ELSE IF firstChar = "dq"
             THEN IF lastChar = "dq" /\ Len(value) > 1
                  THEN [value |-> unescapeValue(Substring(value, 1, Len(value) - 1)), i |-> i]
                  ELSE LET found == Multiline(lines, i + 1, Substring(value, 1, Len(value)))
                       IN  [value |-> unescapeValue(found.value), i |-> found.i]
             ELSE LET commentIndex == IndexOf(value, "hash")
                  IN  IF commentIndex # 0
                      THEN [value |-> Trim(Substring(value, 0, commentIndex - 1)), i |-> i]
                      ELSE [value |-> value, i |-> i]

\* result[key] = value on a plain object: a string assigned to '__proto__'
\* goes to the setter of Object.prototype, which ignores it.
ObjectSet(obj, key, value) ==
    IF key = <<[t |-> "__proto__"]>> THEN obj ELSE MapSet(obj, key, value)

\* The while loop of parse from line i on, result being the object so far.
RECURSIVE ParseLines(_, _, _)

\* Mutant: a line whose key is empty is not skipped.
ParseLinesEmptyKeys(lines, i, result) ==
    IF i > Len(lines) THEN result
    ELSE LET line == Trim(lines[i])
             equalIndex == IndexOf(line, "eq")
             key == Trim(Substring(line, 0, equalIndex - 1))
             value == Trim(Substring(line, equalIndex, Len(line)))
         IN  IF line = <<>> \/ line[1].t = "hash" \/ equalIndex = 0
             THEN ParseLines(lines, i + 1, result)
             ELSE LET entry == EntryValue(lines, i, value)
                  IN  ParseLines(lines, entry.i + 1, ObjectSet(result, key, entry.value))

ParseLines(lines, i, result) ==
    IF i > Len(lines) THEN result
    ELSE LET line == Trim(lines[i])
             equalIndex == IndexOf(line, "eq")
             key == Trim(Substring(line, 0, equalIndex - 1))
             value == Trim(Substring(line, equalIndex, Len(line)))
         IN  IF line = <<>> \/ line[1].t = "hash" \/ equalIndex = 0 \/ key = <<>>
             THEN ParseLines(lines, i + 1, result)
             ELSE LET entry == EntryValue(lines, i, value)
                  IN  ParseLines(lines, entry.i + 1, ObjectSet(result, key, entry.value))

\* The lines the inner loop of parse reads from index i on: every line up to
\* and including the first that ends, trailing white space apart, with a
\* double quote.
RECURSIVE MultilineRead(_, _)
MultilineRead(lines, i) ==
    IF i > Len(lines) THEN <<>>
    ELSE IF EndsWith(TrimEnd(lines[i]), "dq") THEN <<i>>
    ELSE <<i>> \o MultilineRead(lines, i + 1)

\* The text after '=' sends parse into its inner loop.
OpensMultiline(value) ==
    /\ value # <<>>
    /\ value[1].t = "dq"
    /\ ~(value[Len(value)].t = "dq" /\ Len(value) > 1)

\* The while loop of parse from line i on, seen as the lines it reads: roles
\* lists, in the order they are read, each line's index with what the loop
\* does with it ("skipped", "entry" with the key, "continuation").
RECURSIVE LineRoles(_, _, _)
LineRoles(lines, i, roles) ==
    IF i > Len(lines) THEN roles
    ELSE LET line == Trim(lines[i])
             equalIndex == IndexOf(line, "eq")
             key == Trim(Substring(line, 0, equalIndex - 1))
             value == Trim(Substring(line, equalIndex, Len(line)))
         IN  IF line = <<>> \/ line[1].t = "hash" \/ equalIndex = 0 \/ key = <<>>
             THEN LineRoles(lines, i + 1, Append(roles, [line |-> i, role |-> "skipped", key |-> <<>>]))
             ELSE LET entry == EntryValue(lines, i, value)
                      read == IF OpensMultiline(value) THEN MultilineRead(lines, i + 1) ELSE <<>>
                  IN  LineRoles(lines, entry.i + 1,
                                Append(roles, [line |-> i, role |-> "entry", key |-> key])
                                    \o [j \in DOMAIN read |->
                                            [line |-> read[j], role |-> "continuation", key |-> <<>>]])

\* parse(content): the object, a function from keys to values.
parse(content) ==
    IF content = <<>> \/ content = NotAString THEN Returned(<<>>)
    ELSE Returned(ParseLines(Split(content, "lf"), 1, <<>>))

\* Mutant: a value with '#' in it is written bare.
EntryLineBareHash(key, stringValue) ==
    LET needsQuotes == \E c \in {"lf", "cr", "tab", "dq", "bs", "sp"} : Includes(stringValue, c)
        escaped ==
            EscapeChar(
                EscapeChar(
                    EscapeChar(
                        EscapeChar(
                            EscapeChar(stringValue, "bs", "bs"),
                            "dq", "dq"),
                        "lf", "n"),
                    "cr", "r"),
                "tab", "t")
    IN  IF needsQuotes
        THEN key \o <<Ch("eq"), Ch("dq")>> \o escaped \o <<Ch("dq")>>
        ELSE key \o <<Ch("eq")>> \o stringValue

\* The line stringify writes for one entry.
EntryLine(key, stringValue) ==
    LET needsQuotes == \E c \in {"lf", "cr", "tab", "dq", "bs", "hash", "sp"} : Includes(stringValue, c)
        escaped ==
            EscapeChar(
                EscapeChar(
                    EscapeChar(
                        EscapeChar(
                            EscapeChar(stringValue, "bs", "bs"),
                            "dq", "dq"),
                        "lf", "n"),
                    "cr", "r"),
                "tab", "t")
    IN  IF needsQuotes
        THEN key \o <<Ch("eq"), Ch("dq")>> \o escaped \o <<Ch("dq")>>
        ELSE key \o <<Ch("eq")>> \o stringValue

\* lines.join('\n')
RECURSIVE JoinLines(_)
JoinLines(lines) ==
    IF lines = <<>> THEN <<>>
    ELSE IF Len(lines) = 1 THEN lines[1]
    ELSE lines[1] \o <<Ch("lf")>> \o JoinLines(Tail(lines))

\* stringify(obj), obj given as the sequence of its entries <<key, value>> in
\* the order Object.entries lists them; entries with an empty key are skipped.
stringify(entries) ==
    LET kept == SelectSeq(entries, LAMBDA e : e[1] # <<>>)
    IN  Returned(JoinLines([i \in DOMAIN kept |-> EntryLine(kept[i][1], kept[i][2])]))

(***************************************************************************)
(* index.js: config and configAsync                                        *)
(***************************************************************************)
Names ==
    { "__proto__", "constructor", "prototype", "NODE_OPTIONS", "NODE_PATH", "NODE_DEBUG",
      "NODE_REPL_HISTORY", "OXOG_ENV_KEY" }
Name(n) == <<Ch(n)>>

DANGEROUS_KEYS ==
    { Name("__proto__"), Name("constructor"), Name("prototype"), Name("NODE_OPTIONS"),
      Name("NODE_PATH"), Name("NODE_DEBUG"), Name("NODE_REPL_HISTORY") }

\* /^[A-Za-z_][A-Za-z0-9_]*$/.test(key)
validKeyPattern(key) ==
    LET first == {"K", "L", "a", "b", "n", "r", "t", "us"} \cup Names
    IN  /\ key # <<>>
        /\ key[1].t \in first
        /\ \A i \in 2..Len(key) : key[i].t \in first \cup {"1"}

\* Mutant: the syntax of the key is all that is tested.
isValidEnvKeySyntaxOnly(key) == validKeyPattern(key)

isValidEnvKey(key) == IF key \in DANGEROUS_KEYS THEN FALSE ELSE validKeyPattern(key)

\* A decrypted text as the string of characters parse reads.
RECURSIVE Chars(_)
Chars(text) ==
    IF text = <<>> THEN <<>>
    ELSE (IF Head(text).u = "file" THEN Head(text).chars
          ELSE [j \in 1..Head(text).n |-> Ch(Head(text).u)])
             \o Chars(Tail(text))

\* The file at options.path: missing, unreadable (a directory, no permission)
\* or a file with its content.
MissingFile == [kind |-> "missing", content |-> <<>>]
UnreadableFile == [kind |-> "unreadable", content |-> <<>>]
File(content) == [kind |-> "file", content |-> content]

\* fs.readFileSync(envLockPath, encoding), fs.promises.readFile(...)
ReadFile(file) ==
    IF file.kind = "file" THEN Returned(file.content)
    ELSE IF file.kind = "missing" THEN Thrown("ENOENT", "", "file")
    ELSE Thrown("EISDIR", "", "file")

\* process.env.OXOG_ENV_KEY: the empty string stands for undefined as well.
EncryptionKey(env) == IF Name("OXOG_ENV_KEY") \in DOMAIN env THEN env[Name("OXOG_ENV_KEY")] ELSE <<>>

\* Mutant: override is taken as set.
InjectOverriding(env, parsed, override) ==
    LET written == {key \in DOMAIN parsed : isValidEnvKey(key)}
    IN  [key \in DOMAIN env \cup written |-> IF key \in written THEN parsed[key] ELSE env[key]]

\* The loop over Object.entries(parsed): process.env after it.
Inject(env, parsed, override) ==
    LET written == {key \in DOMAIN parsed :
                       isValidEnvKey(key) /\ ~(~override /\ key \in DOMAIN env)}
    IN  [key \in DOMAIN env \cup written |-> IF key \in written THEN parsed[key] ELSE env[key]]

\* What a call leaves: its result, process.env, the tracker, the last clock
\* reading and the clock readings taken.
Left(result, env, fa, lc, t, reads) ==
    [result |-> result, env |-> env, fa |-> fa, lc |-> lc, now |-> t, reads |-> reads]

\* Mutant: a failed decryption is thrown on to the caller.
DecryptFailedThrowing(error) == error

\* The catch block around decrypt.
DecryptFailed(error) == Returned(<<>>)

\* The outer catch block: ENOENT and every other error give {}.
ReadFailed(error) == Returned(<<>>)

\* The rest of the try block, parsed being what parse returned.
Parsed(env, out, parsed, override) ==
    Left(Returned(parsed), Inject(env, parsed, override), out.fa, out.lc, out.now, out.reads)

\* The try block from the decrypt call on, out being what decrypt left.
Decrypted(env, out, override) ==
    IF out.result.status # "ok"
    THEN Left(DecryptFailed(out.result), env, out.fa, out.lc, out.now, out.reads)
    ELSE CHOOSE left \in {Parsed(env, out, parsed, override) :
                             parsed \in {parse(Chars(out.result.value)).value}} : TRUE

\* The try block of config and configAsync, the file read done.
LoadFile(env, fa, lc, t0, encryptionKey, override, file, d1, d2, d3) ==
    LET read == ReadFile(file) IN
    IF read.status # "ok" THEN Left(ReadFailed(read), env, fa, lc, t0, {})
    ELSE LET encryptedContent == Trim(read.value) IN
         IF encryptedContent = <<>> THEN Left(Returned(<<>>), env, fa, lc, t0, {})
         ELSE CHOOSE left \in {Decrypted(env, out, override) :
                                  out \in {decrypt(fa, lc, t0, encryptedContent, encryptionKey, d1, d2, d3)}} : TRUE

\* config(options) with the file found at options.path.
config(env, fa, lc, t0, override, file, d1, d2, d3) ==
    IF EncryptionKey(env) = <<>> THEN Left(Returned(<<>>), env, fa, lc, t0, {})
    ELSE LoadFile(env, fa, lc, t0, EncryptionKey(env), override, file, d1, d2, d3)

(***************************************************************************)
(* The parser exercised on its own: each behaviour draws one argument and  *)
(* applies parse, stringify or unescapeValue to it                         *)
(***************************************************************************)
\* The lines the files are made of.
OpeningLine == Str(<<"K", "eq", "dq", "a">>)
EntryLineL == Str(<<"L", "eq", "b">>)
RawLine == Str(<<"sp", "b", "sp">>)
FileLines ==
    { OpeningLine,
      Str(<<"b", "dq", "sp">>),
      EntryLineL,
      RawLine,
      Str(<<"hash", "a">>),
      Str(<<"K", "eq", "sq", "a", "sq">>),
      Str(<<"K", "eq", "dq", "a", "bs", "n", "b", "dq">>),
      Str(<<"K", "eq", "a", "sp", "hash", "b">>),
      Str(<<"sp", "K", "sp", "eq", "sp", "a", "cr">>),
      Str(<<"eq", "a">>),
      Str(<<"a">>),
      <<>> }

\* Files of up to MaxLines lines.
RECURSIVE FilesOf(_)
FilesOf(n) ==
    IF n = 0 THEN {<<>>}
    ELSE FilesOf(n - 1) \cup {f \o <<l>> : f \in {g \in FilesOf(n - 1) : Len(g) = n - 1}, l \in FileLines}
SmallFiles == {JoinLines(f) : f \in FilesOf(MaxLines) \ {<<>>}}

\* Files with a double-quoted value of several lines followed by an entry:
\* the text after the opening quote, the lines between, the text before the
\* closing quote, and the white space after it.
FirstTexts == {<<>>, Str(<<"a">>)}
MiddleLines == {<<>>, <<RawLine>>, <<EntryLineL>>, <<Str(<<"b">>), <<>>>>}
ClosingTexts == {<<>>, Str(<<"b">>), Str(<<"sp", "b">>)}
TrailingSpaces == {<<>>, Str(<<"sp">>), Str(<<"sp", "tab">>), Str(<<"cr">>)}
NextEntry == Str(<<"L", "eq", "a">>)
MultilineFile(first, middle, closing, trailing) ==
    JoinLines(<<Str(<<"K", "eq", "dq">>) \o first>> \o middle
                  \o <<closing \o <<Ch("dq")>> \o trailing, NextEntry>>)
MultilineFiles ==
    {MultilineFile(f, m, c, w) : f \in FirstTexts, m \in MiddleLines, c \in ClosingTexts, w \in TrailingSpaces}

\* Files in which the double quote that opens the value of K is never closed.
UnclosedTails ==
    {<<>>, <<EntryLineL>>, <<RawLine, EntryLineL>>, <<Str(<<"b", "dq", "a">>), EntryLineL>>}
UnclosedFiles ==
    {JoinLines(before \o <<OpeningLine>> \o after) : before \in {<<>>, <<NextEntry>>}, after \in UnclosedTails}

\* A file with each kind of line parse skips, on both sides of a value of two
\* lines, and lines of the same kinds inside a value of several lines.
SkippingFile ==
    JoinLines(<< Str(<<"sp", "tab">>), Str(<<"sp", "hash", "K", "eq", "a">>),
                 Str(<<"K", "eq", "dq", "a">>), Str(<<"b", "dq">>),
                 Str(<<"a", "b">>), Str(<<"sp", "eq", "a">>), <<>>, EntryLineL >>)
SkippingInsideFile ==
    JoinLines(<< Str(<<"K", "eq", "dq", "a">>), <<>>, Str(<<"hash", "a">>), Str(<<"a">>),
                 Str(<<"eq", "a">>), Str(<<"b", "dq">>), EntryLineL >>)

ParserContents ==
    SmallFiles \cup MultilineFiles \cup UnclosedFiles \cup {SkippingFile, SkippingInsideFile, <<>>, NotAString}

\* The objects given to stringify: up to MaxEntries entries with keys that
\* differ.
ObjectKeys == {Str(<<"K">>), Str(<<"L">>), Str(<<"a">>)}
ObjectValues ==
    { <<>>, Str(<<"a">>), Str(<<"a", "sp", "b">>), Str(<<"a", "hash", "b">>),
      Str(<<"dq">>), Str(<<"bs", "n">>), Str(<<"a", "lf", "b">>), Str(<<"a", "eq", "b">>),
      Str(<<"sq", "a", "sq">>), Str(<<"sq">>), Str(<<"a", "vt">>), Str(<<"nul", "sp">>),
      Str(<<"a", "tab">>), Str(<<"cr", "bs", "dq">>) }
RECURSIVE ObjectsOf(_)
ObjectsOf(n) ==
    IF n = 0 THEN {<<>>}
    ELSE ObjectsOf(n - 1) \cup
             { o \o <<<<k, v>>>> : o \in {g \in ObjectsOf(n - 1) : Len(g) = n - 1},
                                   k \in ObjectKeys, v \in ObjectValues }
HasDistinctKeys(entries) == \A i, j \in DOMAIN entries : entries[i][1] = entries[j][1] => i = j
ParserObjects == {o \in ObjectsOf(MaxEntries) : HasDistinctKeys(o)}

\* The values given to unescapeValue: up to MaxEscaped characters.
EscapeAlphabet == {"bs", "n", "t", "dq", "a", "nul"}
RECURSIVE ValuesOf(_)
ValuesOf(n) ==
    IF n = 0 THEN {<<>>}
    ELSE ValuesOf(n - 1) \cup {v \o <<Ch(c)>> : v \in {g \in ValuesOf(n - 1) : Len(g) = n - 1}, c \in EscapeAlphabet}
EscapedValues == ValuesOf(MaxEscaped)

\* A call that has been given its argument and has not run yet.
Pending(op, arg) == Call(op, NotAString, arg, Thrown("pending", "", "pending"))
IsPending(call, op) == call.op = op /\ call.result.status = "pending"

InitParser ==
    /\ now = 0
    /\ lastCleanup = 0
    /\ failedAttempts = <<>>
    /\ advances = 0
    /\ failureLog = <<>>
    /\ processEnv = <<>>
    /\ asyncCalls = <<>>
    /\ lastCall \in {Pending("parse", c) : c \in ParserContents}
                        \cup {Pending("stringify", o) : o \in ParserObjects}
                        \cup {Pending("unescapeValue", v) : v \in EscapedValues}

ParseCall ==
    /\ IsPending(lastCall, "parse")
    /\ lastCall' = Call("parse", NotAString, lastCall.arg, parse(lastCall.arg))
    /\ UNCHANGED <<now, lastCleanup, failedAttempts, advances, failureLog, host>>

StringifyCall ==
    /\ IsPending(lastCall, "stringify")
    /\ lastCall' = Call("stringify", NotAString, lastCall.arg, stringify(lastCall.arg))
    /\ UNCHANGED <<now, lastCleanup, failedAttempts, advances, failureLog, host>>

UnescapeCall ==
    /\ IsPending(lastCall, "unescapeValue")
    /\ lastCall' = Call("unescapeValue", NotAString, lastCall.arg, Returned(unescapeValue(lastCall.arg)))
    /\ UNCHANGED <<now, lastCleanup, failedAttempts, advances, failureLog, host>>

NextParser == ParseCall \/ StringifyCall \/ UnescapeCall

SpecParser == InitParser /\ [][NextParser]_vars

(***************************************************************************)
(* config and configAsync called on a process environment and a file       *)
(***************************************************************************)
\* The texts the .env.lock files hold.
PlainEntries == JoinLines(<<Str(<<"K", "eq", "a">>), Str(<<"L", "eq", "b">>)>>)
DangerousEntries ==
    JoinLines(<< Str(<<"NODE_OPTIONS", "eq", "a">>), Str(<<"__proto__", "eq", "a">>),
                 Str(<<"constructor", "eq", "a">>), Str(<<"prototype", "eq", "b">>),
                 Str(<<"NODE_REPL_HISTORY", "eq", "b">>), Str(<<"1", "K", "eq", "a">>),
                 Str(<<"K", "eq", "b">>) >>)
NodeEntries == JoinLines(<<Str(<<"NODE_DEBUG", "eq", "a">>), Str(<<"NODE_PATH", "eq", "b">>)>>)
MalformedEntries ==
    JoinLines(<< Str(<<"K", "dash", "L", "eq", "a">>),
                 Str(<<"K", "sp", "L", "eq", "b">>), Str(<<"us", "K", "1", "eq", "a">>) >>)
EnvTexts == {PlainEntries, DangerousEntries, NodeEntries, MalformedEntries, <<>>}

\* The file encrypt writes for a text under KeyA, with the newline that ends
\* the file.
LockFile(text) == File(encrypt(FileText(text), KeyA, Iv1, 0).value \o <<Ch("lf")>>)
ConfigFiles ==
    {LockFile(text) : text \in EnvTexts}
        \cup {MissingFile, UnreadableFile, File(<<>>), File(Str(<<"sp", "lf">>)),
              File(Envelope(TwoFieldPayload, 0))}

\* process.env at the start: OXOG_ENV_KEY unset, empty, the key of the files
\* or another key; with the key of the files, K set or not.
KeySettings == {<<>>, MapSet(<<>>, Name("OXOG_ENV_KEY"), <<>>), MapSet(<<>>, Name("OXOG_ENV_KEY"), KeyA),
                MapSet(<<>>, Name("OXOG_ENV_KEY"), KeyB)}
Environments ==
    KeySettings \cup {MapSet(MapSet(<<>>, Name("OXOG_ENV_KEY"), KeyA), Str(<<"K">>), Str(<<"n">>))}

InitConfig ==
    /\ now = 0
    /\ lastCleanup = 0
    /\ failedAttempts = <<>>
    /\ lastCall = NoCall
    /\ advances = 0
    /\ failureLog = <<>>
    /\ processEnv \in Environments
    /\ asyncCalls = <<>>

Options(override, file) == [override |-> override, file |-> file]

\* The clock readings of the decrypt call inside config: the calls follow
\* each other within one ms, so that ten failures fall into one window.
ConfigSchedules == {<<0, 0, 0>>}

\* The call leaves out, having read the clock as the schedule d says.
Leaves(out, d) ==
    /\ \A i \in 1..3 : (i \notin out.reads) => d[i] = 0
    /\ now' = out.now
    /\ advances' = advances + Used(d[1] + d[2] + d[3])
    /\ failedAttempts' = out.fa
    /\ lastCleanup' = out.lc
    /\ processEnv' = out.env
    /\ failureLog' = Pruned(out.now)

\* One call of config({ override }) with the file at the path.
ConfigCall(override, file) ==
    \E d \in ConfigSchedules :
        /\ advances + Used(d[1] + d[2] + d[3]) <= MaxAdvances
        /\ \E out \in {config(processEnv, failedAttempts, lastCleanup, now, override, file, d[1], d[2], d[3])} :
            /\ Leaves(out, d)
            /\ lastCall' = Call("config", EncryptionKey(processEnv), Options(override, file), out.result)
            /\ UNCHANGED asyncCalls

\* configAsync({ override }) up to its await: without a key the promise is
\* resolved with {}, with a key the file read is started.
ConfigAsyncCall(override) ==
    IF EncryptionKey(processEnv) = <<>>
    THEN /\ lastCall' = Call("configAsync", <<>>, Options(override, MissingFile), Returned(<<>>))
         /\ UNCHANGED <<now, lastCleanup, failedAttempts, advances, failureLog, host>>
    ELSE /\ Len(asyncCalls) < MaxPending
         /\ asyncCalls' = Append(asyncCalls, [encryptionKey |-> EncryptionKey(processEnv), override |-> override])
         /\ lastCall' = NoCall
         /\ UNCHANGED <<now, lastCleanup, failedAttempts, advances, failureLog, processEnv>>

\* The file read of the i-th waiting configAsync call completes, and the
\* call runs to its end.
ConfigAsyncResume(i, file) ==
    /\ i \in DOMAIN asyncCalls
    /\ \E d \in ConfigSchedules :
        /\ advances + Used(d[1] + d[2] + d[3]) <= MaxAdvances
        /\ \E out \in {LoadFile(processEnv, failedAttempts, lastCleanup, now, asyncCalls[i].encryptionKey,
                                 asyncCalls[i].override, file, d[1], d[2], d[3])} :
            /\ Leaves(out, d)
            /\ lastCall' = Call("configAsync", asyncCalls[i].encryptionKey,
                                Options(asyncCalls[i].override, file), out.result)
            /\ asyncCalls' = SubSeq(asyncCalls, 1, i - 1) \o SubSeq(asyncCalls, i + 1, Len(asyncCalls))

NextConfig ==
    \/ \E override \in BOOLEAN, file \in ConfigFiles : ConfigCall(override, file)
    \/ \E override \in BOOLEAN : ConfigAsyncCall(override)
    \/ \E i \in 1..MaxPending, file \in ConfigFiles : ConfigAsyncResume(i, file)

SpecConfig == InitConfig /\ [][NextConfig]_vars

(***************************************************************************)
(* Properties of the Attempt Tracker                                       *)
(***************************************************************************)
IsDecrypt(call) == call.op = "decrypt"
Status(call) == call.result.status
HasRecord(fa, keyHex) == MapHas(fa, KeyHash(keyHex))
RecordOf(fa, keyHex) == fa[KeyHash(keyHex)]
\* The logged failures of key string k at or after time t.
FailuresSince(k, t) == Len(SelectSeq(failureLog[k], LAMBDA at : at >= t))
\* The logged failures of key string k less than RATE_LIMIT_WINDOW ms ago.
FailuresWithinWindow(k) == Len(SelectSeq(failureLog[k], LAMBDA at : at > now - RATE_LIMIT_WINDOW))
OwnFailure(call) == IF Status(call) = "InvalidOrCorrupted" THEN 1 ELSE 0

C2_SlidingWindow ==
    \A k \in DOMAIN failureLog : FailuresWithinWindow(k) <= MAX_FAILED_ATTEMPTS

\* C2 as amended: the limit is per fixed window: at most 10 failures of a key
\* fall between the window start of its record and the end of that window,
\* and an interval of RATE_LIMIT_WINDOW ms, which can span two windows,
\* holds at most 20.
C2_FixedWindow ==
    \A k \in DOMAIN failureLog :
        /\ HasRecord(failedAttempts, k)
               => FailuresSince(k, RecordOf(failedAttempts, k).firstAttempt) <= MAX_FAILED_ATTEMPTS
        /\ Len(failureLog[k]) <= 2 * MAX_FAILED_ATTEMPTS

\* C2 witness: a failing call is the 11th failure of the key in less than
\* RATE_LIMIT_WINDOW ms, while the count of its window is below the limit.
C2_Witness ==
    /\ IsDecrypt(lastCall) /\ Status(lastCall) = "InvalidOrCorrupted"
    /\ KeyA \in DOMAIN failureLog /\ FailuresWithinWindow(KeyA) > MAX_FAILED_ATTEMPTS
    /\ RecordOf(failedAttempts, KeyA).count < MAX_FAILED_ATTEMPTS

\* C3: a decrypt call with one key neither creates nor changes the record of
\* another key, and never turns the gate of another key from open to closed.
C3_PerKeyGate ==
    [][IsDecrypt(lastCall') =>
        \A k \in TrackerKeys \ {lastCall'.key} :
            /\ HasRecord(failedAttempts', k)
                   => /\ HasRecord(failedAttempts, k)
                      /\ RecordOf(failedAttempts', k) = RecordOf(failedAttempts, k)
            /\ isRateLimited(failedAttempts', lastCleanup', k, now', now').limited
                   => isRateLimited(failedAttempts, lastCleanup, k, now, now).limited]_vars

\* C3 witness: KeyB decrypts while KeyA is locked out.
C3_Witness ==
    /\ IsDecrypt(lastCall) /\ lastCall.key = KeyB /\ Status(lastCall) = "ok"
    /\ HasRecord(failedAttempts, KeyA)
    /\ RecordOf(failedAttempts, KeyA).count >= MAX_FAILED_ATTEMPTS
    /\ now - RecordOf(failedAttempts, KeyA).firstAttempt <= RATE_LIMIT_WINDOW

\* C5: a decrypt call that fails with InvalidOrCorrupted records one failure
\* for its key: with no record before the call, or with the window of the
\* record expired when the failure is recorded, the record afterwards has
\* count 1 and a window start read during the call; otherwise the count is
\* one higher and the window start is the same.
C5_OneFailureRecorded ==
    [][(IsDecrypt(lastCall') /\ Status(lastCall') = "InvalidOrCorrupted") =>
        LET k == lastCall'.key IN
        /\ HasRecord(failedAttempts', k)
        /\ IF ~HasRecord(failedAttempts, k)
              \/ now' - RecordOf(failedAttempts, k).firstAttempt > RATE_LIMIT_WINDOW
           THEN /\ RecordOf(failedAttempts', k).count = 1
                /\ RecordOf(failedAttempts', k).firstAttempt >= now
                /\ RecordOf(failedAttempts', k).firstAttempt <= now'
           ELSE RecordOf(failedAttempts', k) =
                    Attempts(RecordOf(failedAttempts, k).count + 1,
                             RecordOf(failedAttempts, k).firstAttempt)]_vars

\* C5 witness: a failed call started a new window after an earlier one ran out.
C5_Witness ==
    /\ IsDecrypt(lastCall) /\ Status(lastCall) = "InvalidOrCorrupted"
    /\ RecordOf(failedAttempts, lastCall.key).count = 1
    /\ RecordOf(failedAttempts, lastCall.key).firstAttempt > RATE_LIMIT_WINDOW

\* C6 as claimed: a successful decrypt leaves the record of its key as it
\* was, in every tracker state.
C6_RecordUntouched ==
    [][(IsDecrypt(lastCall') /\ Status(lastCall') = "ok") =>
        LET k == lastCall'.key IN
        /\ HasRecord(failedAttempts', k) <=> HasRecord(failedAttempts, k)
        /\ HasRecord(failedAttempts, k)
               => RecordOf(failedAttempts', k) = RecordOf(failedAttempts, k)]_vars

\* C6 as amended: a successful decrypt leaves the record of its key as it was
\* when the key has no record or the window of its record has not expired by
\* the end of the call; a record whose window has expired is replaced by a
\* record with count 0 and a window start read during the call, or removed.
C6_UntouchedUnlessExpired ==
    [][(IsDecrypt(lastCall') /\ Status(lastCall') = "ok") =>
        LET k == lastCall'.key IN
        IF ~HasRecord(failedAttempts, k) THEN ~HasRecord(failedAttempts', k)
        ELSE IF now' - RecordOf(failedAttempts, k).firstAttempt <= RATE_LIMIT_WINDOW
        THEN /\ HasRecord(failedAttempts', k)
             /\ RecordOf(failedAttempts', k) = RecordOf(failedAttempts, k)
        ELSE \/ ~HasRecord(failedAttempts', k)
             \/ /\ RecordOf(failedAttempts', k).count = 0
                /\ RecordOf(failedAttempts', k).firstAttempt >= now
                /\ RecordOf(failedAttempts', k).firstAttempt <= now']_vars

\* C6 witness: a decrypt succeeded for a key with failures in its running window.
C6_Witness ==
    /\ IsDecrypt(lastCall) /\ Status(lastCall) = "ok"
    /\ HasRecord(failedAttempts, lastCall.key)
    /\ RecordOf(failedAttempts, lastCall.key).count > 0
    /\ now - RecordOf(failedAttempts, lastCall.key).firstAttempt <= RATE_LIMIT_WINDOW

\* C7: a decrypt call rejected with RateLimited returns no plaintext and leaves
\* the record of its key, count and window start, as it was.
C7_RejectionRecordsNothing ==
    [][(IsDecrypt(lastCall') /\ Status(lastCall') = "RateLimited") =>
        LET k == lastCall'.key IN
        /\ lastCall'.result.value = NotAString
        /\ HasRecord(failedAttempts, k) /\ HasRecord(failedAttempts', k)
        /\ RecordOf(failedAttempts', k) = RecordOf(failedAttempts, k)]_vars

\* C7 witness: a call was rejected with RateLimited after time had passed in
\* the window.
C7_Witness ==
    /\ IsDecrypt(lastCall) /\ Status(lastCall) = "RateLimited"
    /\ now > RecordOf(failedAttempts, lastCall.key).firstAttempt

\* C8: a decrypt call that starts more than RATE_LIMIT_WINDOW ms after the
\* window start of its key's record is not rejected with RateLimited, and the
\* envelope that key decrypts is decrypted.
C8_LockoutExpires ==
    [][(/\ IsDecrypt(lastCall')
        /\ HasRecord(failedAttempts, lastCall'.key)
        /\ now - RecordOf(failedAttempts, lastCall'.key).firstAttempt > RATE_LIMIT_WINDOW) =>
        /\ Status(lastCall') # "RateLimited"
        /\ lastCall'.arg = EnvelopeFor(lastCall'.key) => lastCall'.result = Returned(SmallText)]_vars

\* C8 witness: a decrypt succeeded and left the count-0 record that replaces
\* an expired one.
C8_Witness ==
    /\ IsDecrypt(lastCall) /\ lastCall.result = Returned(SmallText)
    /\ HasRecord(failedAttempts, lastCall.key)
    /\ RecordOf(failedAttempts, lastCall.key) = Attempts(0, now)

(***************************************************************************)
(* Properties of the Envelope Codec, checked under SpecCodec               *)
(***************************************************************************)
IsEncrypt(call) == call.op = "encrypt"
\* The ways the try block of decrypt fails.
FailureCauses == {"metaFields", "checksum", "payloadFields", "ivLength", "tagLength", "authentication"}
\* A string that is the lower-case hex of n bytes.
IsHexOf(field, n) == ByteLen(FromHex(field)) = n /\ ToHex(FromHex(field)) = field
\* Texts that UTF-8 encoding preserves: no lone surrogate.
WellFormedTexts == {p \in TextsWithinLimit : Utf8Decode(Utf8Encode(p)) = p}

C9_RoundTrip ==
    \A p \in WellFormedTexts, k \in ValidKeys :
        ( /\ IsDecrypt(lastCall)
          /\ lastCall.key = k
          /\ lastCall.arg = encrypt(p, k, Iv1, 0).value
          /\ Status(lastCall) # "RateLimited" )
        => lastCall.result = Returned(p)

\* The round trip holds for the plaintexts whose envelope is within the size
\* limit of decrypt.
C9_RoundTripWithinEnvelopeLimit ==
    \A p \in WellFormedTexts, k \in ValidKeys :
        ( /\ IsDecrypt(lastCall)
          /\ lastCall.key = k
          /\ lastCall.arg = encrypt(p, k, Iv1, 0).value
          /\ StrByteLength(lastCall.arg) <= MAX_INPUT_SIZE * 2
          /\ Status(lastCall) # "RateLimited" )
        => lastCall.result = Returned(p)

C11_LegacyPayloadDecrypts ==
    \A p \in LegacyTexts :
        ( /\ IsDecrypt(lastCall)
          /\ lastCall.key = KeyA
          /\ lastCall.arg = PayloadOf(p, KeyA)
          /\ Status(lastCall) # "RateLimited" )
        => /\ ~StartsWithV1(lastCall.arg)
           /\ Len(Split(lastCall.arg, "bar")) = 1
           /\ lastCall.result = Returned(p)

\* A decrypt call on a bare payload has returned its text.
C11_Witness ==
    /\ IsDecrypt(lastCall)
    /\ lastCall.key = KeyA
    /\ lastCall.arg = PayloadOf(SmallText, KeyA)
    /\ lastCall.result = Returned(SmallText)

(***************************************************************************)
(* Properties of tamper detection, checked under SpecTamper                *)
(***************************************************************************)
\* C12 as claimed: a decrypt call with the right key on an envelope with one
\* character of the iv, tag or data segment changed never returns a plaintext:
\* it fails with InvalidOrCorrupted unless the rate limiter rejects it.
C12_EveryChangeRejected ==
    (IsDecrypt(lastCall) /\ lastCall.arg \in TamperedV1(Changes) \cup TamperedLegacy(Changes))
        => Status(lastCall) \in {"InvalidOrCorrupted", "RateLimited"}

\* C12 as amended: a change that alters the decoded bytes of the segment, in
\* either format, and any change in a v1 envelope, makes the call that the
\* rate limiter lets through fail with InvalidOrCorrupted; a changed envelope
\* that decrypts is a legacy payload with a letter in the other case, and it
\* decrypts to the original plaintext.
C12_ByteChangeRejected ==
    /\ (IsDecrypt(lastCall)
          /\ lastCall.arg \in TamperedV1(Changes) \cup TamperedLegacy(ValueChanges)
          /\ Status(lastCall) # "RateLimited")
        => Status(lastCall) = "InvalidOrCorrupted"
    /\ (IsDecrypt(lastCall)
          /\ lastCall.arg \in TamperedV1(Changes) \cup TamperedLegacy(Changes)
          /\ Status(lastCall) = "ok")
        => /\ lastCall.arg \in TamperedLegacy({"case"})
           /\ lastCall.result = Returned(SmallText)

\* A legacy payload with another hex digit in its data segment has been
\* rejected for failing authentication.
C12_Witness ==
    /\ IsDecrypt(lastCall)
    /\ lastCall.arg = ChangedPayload(PayloadOf(SmallText, KeyA), 3, "digit")
    /\ Status(lastCall) = "InvalidOrCorrupted"
    /\ lastCall.result.cause = "authentication"

(***************************************************************************)
(* Properties of the sweep, checked under SpecSweep                        *)
(***************************************************************************)
\* C13: a step in which the sweep ran (lastCleanup moved to the sweep's clock
\* reading) removes every record whose window started before that reading
\* minus RATE_LIMIT_WINDOW, and keeps every other record with its count and
\* window start; only the record of the key of the call can differ, by the
\* failure the same call recorded after the sweep.
C13_SweepRemovesExpiredOnly ==
    [][lastCleanup' # lastCleanup =>
        \A k \in TrackerKeys :
            HasRecord(failedAttempts, k) =>
                IF RecordOf(failedAttempts, k).firstAttempt < lastCleanup' - RATE_LIMIT_WINDOW
                THEN \/ ~HasRecord(failedAttempts', k)
                     \/ /\ k = lastCall'.key
                        /\ Status(lastCall') = "InvalidOrCorrupted"
                        /\ RecordOf(failedAttempts', k) = Attempts(1, now')
                ELSE /\ HasRecord(failedAttempts', k)
                     /\ (k # lastCall'.key \/ Status(lastCall') # "InvalidOrCorrupted")
                            => RecordOf(failedAttempts', k) = RecordOf(failedAttempts, k)]_vars

\* A call with KeyA has swept: the record of KeyB, whose window started
\* before the sweep and had not expired, is still there, and KeyA has none.
C13_Witness ==
    /\ IsDecrypt(lastCall) /\ lastCall.key = KeyA /\ Status(lastCall) = "ok"
    /\ lastCleanup > CLEANUP_INTERVAL
    /\ now - lastCleanup <= 1
    /\ ~HasRecord(failedAttempts, KeyA)
    /\ HasRecord(failedAttempts, KeyB)
    /\ RecordOf(failedAttempts, KeyB).firstAttempt < lastCleanup
    /\ RecordOf(failedAttempts, KeyB).count > 0

\* C14: lastCleanup moves only in a decrypt call that reached the rate-limit
\* check, and then by more than CLEANUP_INTERVAL ms: more than 300000 ms lie
\* between module start and the first sweep and between two sweeps.
C14_SweepInterval ==
    [][lastCleanup' # lastCleanup =>
        /\ IsDecrypt(lastCall')
        /\ lastCall'.result.cause \notin {"cipherText", "size", "key"}
        /\ lastCleanup' - lastCleanup > CLEANUP_INTERVAL
        /\ lastCleanup' <= now']_vars

\* A second sweep has run.
C14_Witness ==
    /\ IsDecrypt(lastCall)
    /\ lastCleanup = now
    /\ lastCleanup > 2 * CLEANUP_INTERVAL

(***************************************************************************)
(* Properties of clearRateLimit, checked under Spec                        *)
(***************************************************************************)
IsClear(call) == call.op = "clearRateLimit"

\* C15: clearRateLimit(h) leaves no record under h, whatever count the record
\* held, and every other record as it was, and the decrypt call that follows
\* it with the key whose hash is h is not rejected with RateLimited.
C15_ClearRemovesOneRecord ==
    [][/\ IsClear(lastCall') =>
            \A k \in TrackerKeys :
                IF KeyHash(k) = lastCall'.key
                THEN ~HasRecord(failedAttempts', k)
                ELSE /\ HasRecord(failedAttempts', k) <=> HasRecord(failedAttempts, k)
                     /\ HasRecord(failedAttempts, k)
                            => RecordOf(failedAttempts', k) = RecordOf(failedAttempts, k)
       /\ (IsClear(lastCall) /\ IsDecrypt(lastCall') /\ KeyHash(lastCall'.key) = lastCall.key)
            => Status(lastCall') # "RateLimited"]_vars

\* The record of KeyA has been cleared while KeyB is locked out: KeyA has no
\* record and the record of KeyB still holds its 10 failures.
C15_Witness ==
    /\ IsClear(lastCall) /\ lastCall.key = KeyHash(KeyA)
    /\ ~HasRecord(failedAttempts, KeyA)
    /\ HasRecord(failedAttempts, KeyB)
    /\ RecordOf(failedAttempts, KeyB).count >= MAX_FAILED_ATTEMPTS

(***************************************************************************)
(* The life of an Attempt Record, checked under Spec                       *)
(***************************************************************************)
\* A record appears only in a decrypt call with its key that ends
\* InvalidOrCorrupted.
CreatedByFailureOnly ==
    \A k \in TrackerKeys :
        (~HasRecord(failedAttempts, k) /\ HasRecord(failedAttempts', k))
            => /\ IsDecrypt(lastCall') /\ lastCall'.key = k
               /\ Status(lastCall') = "InvalidOrCorrupted"

\* A decrypt call that records no failure, with a key whose record had
\* expired before the call.
ChecksExpiredRecord ==
    /\ IsDecrypt(lastCall')
    /\ Status(lastCall') # "InvalidOrCorrupted"
    /\ HasRecord(failedAttempts, lastCall'.key)
    /\ now - RecordOf(failedAttempts, lastCall'.key).firstAttempt > RATE_LIMIT_WINDOW

\* C16 as claimed: a record is created only by a failed decryption with its
\* key, and after a check of a key whose record has expired, with no new
\* failure, the tracker holds no record for that key.
C16_ExpiredRecordDeleted ==
    [][/\ CreatedByFailureOnly
       /\ ChecksExpiredRecord => ~HasRecord(failedAttempts', lastCall'.key)]_vars

\* C16 as amended: a record is created only by a failed decryption with its
\* key; a check of a key whose record has expired, with no new failure,
\* leaves a record of count 0 whose window starts at the check, unless the
\* sweep ran in that call and deleted the record.
C16_ExpiredRecordReset ==
    [][/\ CreatedByFailureOnly
       /\ ChecksExpiredRecord =>
            IF lastCleanup' # lastCleanup
            THEN ~HasRecord(failedAttempts', lastCall'.key)
            ELSE /\ HasRecord(failedAttempts', lastCall'.key)
                 /\ RecordOf(failedAttempts', lastCall'.key).count = 0
                 /\ RecordOf(failedAttempts', lastCall'.key).firstAttempt \in now..now']_vars

\* A call with KeyA has succeeded and left a record of count 0 for it.
C16_Witness ==
    /\ IsDecrypt(lastCall) /\ lastCall.key = KeyA /\ Status(lastCall) = "ok"
    /\ HasRecord(failedAttempts, KeyA)
    /\ RecordOf(failedAttempts, KeyA) = Attempts(0, now)

(***************************************************************************)
(* Properties of the parser, checked under SpecParser                      *)
(***************************************************************************)
\* The call has run.
Done(call, op) == call.op = op /\ call.result.status # "pending"

\* C17: parse of a file in which the double quote opening the value of K is
\* closed neither on its line nor at the end of a later line fails with
\* UnclosedQuote; it returns no mapping.
C17_UnclosedQuoteFails ==
    (Done(lastCall, "parse") /\ lastCall.arg \in UnclosedFiles)
        => Status(lastCall) = "UnclosedQuote"

\* The object with the entries given: a function from keys to values.
AsMapping(entries) ==
    [k \in {entries[i][1] : i \in DOMAIN entries} |->
        (CHOOSE e \in {entries[i] : i \in DOMAIN entries} : e[1] = k)[2]]

\* C18: for every object m with non-empty keys of letters and string values,
\* parse(stringify(m)) is m: the same keys, each with the same value.
C18_StringifyRoundTrip ==
    Done(lastCall, "stringify")
        => parse(lastCall.result.value) = Returned(AsMapping(lastCall.arg))

\* Values that stringify and parse carry through: not wrapped in single
\* quotes, none of the white space that stringify leaves unquoted, and no
\* U+0000.
CarriedThrough(v) ==
    /\ ~(Len(v) >= 2 /\ v[1].t = "sq" /\ v[Len(v)].t = "sq")
    /\ ~Includes(v, "vt")
    /\ ~Includes(v, "nul")

\* The round trip of C18 for objects whose values are all carried through.
C18_RoundTripOfCarriedValues ==
    (Done(lastCall, "stringify") /\ \A i \in DOMAIN lastCall.arg : CarriedThrough(lastCall.arg[i][2]))
        => parse(lastCall.result.value) = Returned(AsMapping(lastCall.arg))

\* C19: in a double-quoted value of several lines the closing line gives the
\* text before its closing quote and nothing of the white space after it, the
\* lines are joined by newlines, and the line after the closing line is
\* parsed as the next entry.
C19_ClosingLine ==
    \A f \in FirstTexts, m \in MiddleLines, c \in ClosingTexts, w \in TrailingSpaces :
        (Done(lastCall, "parse") /\ lastCall.arg = MultilineFile(f, m, c, w))
            => lastCall.result =
                   Returned(MapSet(MapSet(<<>>, Str(<<"K">>), JoinLines(<<f>> \o m \o <<c>>)),
                                   Str(<<"L">>), Str(<<"a">>)))

\* parse has read a value of three lines whose closing quote is followed by a
\* space and a tab, and the entry after it.
C19_Witness ==
    /\ Done(lastCall, "parse")
    /\ lastCall.arg = MultilineFile(Str(<<"a">>), <<RawLine>>, Str(<<"b">>), Str(<<"sp", "tab">>))
    /\ Status(lastCall) = "ok"
    /\ lastCall.result.value[Str(<<"K">>)] = Str(<<"a", "lf", "sp", "b", "sp", "lf", "b">>)
    /\ lastCall.result.value[Str(<<"L">>)] = Str(<<"a">>)

\* The character an escape pair stands for.
Expansion(c) ==
    CASE c = "bs" -> "bs" [] c = "n" -> "lf" [] c = "r" -> "cr" [] c = "t" -> "tab" [] c = "dq" -> "dq"

\* One pass from left to right: an escape pair gives its character, any
\* other character gives itself.
RECURSIVE SinglePass(_)
SinglePass(s) ==
    IF s = <<>> THEN <<>>
    ELSE IF Len(s) >= 2 /\ s[1].t = "bs" /\ s[2].t \in {"bs", "n", "r", "t", "dq"}
         THEN <<Ch(Expansion(s[2].t))>> \o SinglePass(Tail(Tail(s)))
         ELSE <<Head(s)>> \o SinglePass(Tail(s))

\* C20: unescapeValue gives what one pass from left to right gives: every
\* escape pair replaced once, every other character unchanged.
C20_SinglePass ==
    Done(lastCall, "unescapeValue") => lastCall.result.value = SinglePass(lastCall.arg)

\* C20 for the values without U+0000.
C20_SinglePassWithoutNul ==
    (Done(lastCall, "unescapeValue") /\ ~Includes(lastCall.arg, "nul"))
        => lastCall.result.value = SinglePass(lastCall.arg)

\* The lines of a file apart from those at the indices in gone.
RECURSIVE Without(_, _)
Without(lines, gone) ==
    IF lines = <<>> THEN <<>>
    ELSE Without(SubSeq(lines, 1, Len(lines) - 1), gone)
             \o (IF Len(lines) \in gone THEN <<>> ELSE <<lines[Len(lines)]>>)

\* The four kinds of line the parser is to skip, read off the line itself.
IsBlank(l) == \A j \in DOMAIN l : l[j].t \in WhiteSpace
IsComment(l) == \E j \in DOMAIN l : l[j].t = "hash" /\ \A k \in 1..(j - 1) : l[k].t \in WhiteSpace
HasNoEquals(l) == \A j \in DOMAIN l : l[j].t # "eq"
HasEmptyKey(l) == \E j \in DOMAIN l : l[j].t = "eq" /\ \A k \in 1..(j - 1) : l[k].t \in WhiteSpace
Skippable(l) == IsBlank(l) \/ IsComment(l) \/ HasNoEquals(l) \/ HasEmptyKey(l)

\* The indices of the lines of a file that parse reads with the role given.
WithRole(lines, role) ==
    LET roles == LineRoles(lines, 1, <<>>)
    IN  {roles[j].line : j \in {r \in DOMAIN roles : roles[r].role = role}}

\* The lines of one of the four kinds that lie outside every value of
\* several lines.
SkippableOutsideValues(lines) ==
    {j \in DOMAIN lines : Skippable(lines[j])} \ WithRole(lines, "continuation")

\* C21: parse of a file with blank lines, lines that start with '#', lines
\* without '=' and lines with an empty key returns, without an error, what it
\* returns for the file without any one of these lines and for the file
\* without all of them; no key comes from such a line.
C21_SkippedLinesContributeNothing ==
    (Done(lastCall, "parse") /\ lastCall.arg \notin {<<>>, NotAString})
        => LET lines == Split(lastCall.arg, "lf")
               skipped == SkippableOutsideValues(lines)
           IN  /\ Status(lastCall) = "ok"
               /\ \A j \in skipped : parse(JoinLines(Without(lines, {j}))) = lastCall.result
               /\ parse(JoinLines(Without(lines, skipped))) = lastCall.result
               /\ skipped = WithRole(lines, "skipped")

\* parse has read SkippingFile: two lines of each kind skipped, the value of
\* K and the entry L returned.
C21_Witness ==
    /\ Done(lastCall, "parse")
    /\ lastCall.arg = SkippingFile
    /\ SkippableOutsideValues(Split(lastCall.arg, "lf")) = {1, 2, 5, 6, 7}
    /\ lastCall.result =
           Returned(MapSet(MapSet(<<>>, Str(<<"K">>), Str(<<"a", "lf", "b">>)), Str(<<"L">>), Str(<<"b">>)))

\* The characters that make stringify quote a value, and what each is
\* written as between the quotes.
QuotingCharacters == {"lf", "cr", "tab", "dq", "bs", "hash", "sp"}
Written(c) ==
    CASE c = "bs" -> Str(<<"bs", "bs">>)
      [] c = "dq" -> Str(<<"bs", "dq">>)
      [] c = "lf" -> Str(<<"bs", "n">>)
      [] c = "cr" -> Str(<<"bs", "r">>)
      [] c = "tab" -> Str(<<"bs", "t">>)
      [] OTHER -> <<Ch(c)>>
RECURSIVE WrittenValue(_)
WrittenValue(v) == IF v = <<>> THEN <<>> ELSE Written(Head(v).t) \o WrittenValue(Tail(v))

\* The line the claim gives for one entry.
ExpectedLine(key, v) ==
    IF \E j \in DOMAIN v : v[j].t \in QuotingCharacters
    THEN key \o Str(<<"eq", "dq">>) \o WrittenValue(v) \o Str(<<"dq">>)
    ELSE key \o Str(<<"eq">>) \o v

\* C22: stringify writes one line for each entry: KEY="..." with backslash,
\* double quote, newline, carriage return and tab escaped when the value has
\* a newline, carriage return, tab, double quote, backslash, '#' or space in
\* it, and KEY=value with the value as it is otherwise.
C22_QuotedIffNeeded ==
    Done(lastCall, "stringify")
        => lastCall.result =
               Returned(JoinLines([j \in DOMAIN lastCall.arg |->
                                      ExpectedLine(lastCall.arg[j][1], lastCall.arg[j][2])]))

\* stringify has written a value with a carriage return, a backslash and a
\* double quote in quotes and a value with '=' in it bare.
C22_Witness ==
    /\ Done(lastCall, "stringify")
    /\ lastCall.arg = << <<Str(<<"K">>), Str(<<"cr", "bs", "dq">>)>>, <<Str(<<"L">>), Str(<<"a", "eq", "b">>)>> >>
    /\ lastCall.result.value =
           Str(<<"K", "eq", "dq", "bs", "r", "bs", "bs", "bs", "dq", "dq", "lf", "L", "eq", "a", "eq", "b">>)

\* C30: parse returns for every file, and its loop reads the lines of the
\* file one after the other, each once: a line is skipped only when it is of
\* one of the four kinds, is the line of an entry whose key is in the result,
\* or is a continuation line of the value opened by the entry line before it;
\* the line after a closing line is read next, as a skipped line or an entry.
C30_EveryLineOnce ==
    (Done(lastCall, "parse") /\ lastCall.arg \notin {<<>>, NotAString})
        => LET lines == Split(lastCall.arg, "lf")
               roles == LineRoles(lines, 1, <<>>)
           IN  /\ Status(lastCall) = "ok"
               /\ Len(roles) = Len(lines)
               /\ \A j \in DOMAIN roles : roles[j].line = j
               /\ \A j \in DOMAIN roles : roles[j].role = "skipped" => Skippable(lines[j])
               /\ \A j \in DOMAIN roles :
                      roles[j].role = "continuation"
                          => /\ j > 1
                             /\ roles[j - 1].role \in {"entry", "continuation"}
                             /\ roles[j - 1].role = "continuation"
                                    => ~EndsWith(TrimEnd(lines[j - 1]), "dq")
               /\ {roles[j].key : j \in {r \in DOMAIN roles : roles[r].role = "entry"}}
                      = DOMAIN lastCall.result.value

\* parse has read SkippingInsideFile: the five lines after the first are
\* continuation lines of the value of K, the last is the entry L.
C30_Witness ==
    /\ Done(lastCall, "parse")
    /\ lastCall.arg = SkippingInsideFile
    /\ WithRole(Split(lastCall.arg, "lf"), "continuation") = 2..6
    /\ WithRole(Split(lastCall.arg, "lf"), "entry") = {1, 7}
    /\ lastCall.result =
           Returned(MapSet(MapSet(<<>>, Str(<<"K">>),
                                  Str(<<"a", "lf", "lf", "hash", "a", "lf", "a", "lf", "eq", "a", "lf", "b">>)),
                           Str(<<"L">>), Str(<<"b">>)))

(***************************************************************************)
(* Properties of the tracker, checked under Spec and SpecAudit             *)
(***************************************************************************)
\* C27: in every state of the tracker, the count of every record is at most
\* MAX_FAILED_ATTEMPTS.
C27_CountAtMostThreshold ==
    \A h \in DOMAIN failedAttempts : failedAttempts[h].count <= MAX_FAILED_ATTEMPTS

\* A decrypt call has failed on a key whose record now holds the tenth
\* failure, while the other key has a record of its own.
C27_Witness ==
    /\ IsDecrypt(lastCall)
    /\ Status(lastCall) = "InvalidOrCorrupted"
    /\ HasRecord(failedAttempts, lastCall.key)
    /\ RecordOf(failedAttempts, lastCall.key).count = MAX_FAILED_ATTEMPTS
    /\ Cardinality(DOMAIN failedAttempts) = 2

\* The failures a record holds for key string k: 0 when there is no record.
CountOf(fa, k) == IF HasRecord(fa, k) THEN RecordOf(fa, k).count ELSE 0
\* The step leaves the record of k in the window it was in.
SameWindow(k) ==
    /\ HasRecord(failedAttempts, k) /\ HasRecord(failedAttempts', k)
    /\ RecordOf(failedAttempts', k).firstAttempt = RecordOf(failedAttempts, k).firstAttempt

\* C28: a decrypt call fails with RateLimited only when the record of its key
\* string holds at least MAX_FAILED_ATTEMPTS failures and the window of the
\* record started at most RATE_LIMIT_WINDOW ms ago; and the failures a record
\* holds are recorded one by one, each by a failed decrypt call made with
\* that key string: no other step adds to the count of a record or starts a
\* window with a failure in it, and a window starts during the call whose
\* failure is its first.
C28_NoFalseLockout ==
    [][\A k \in SpellingKeys :
          /\ (IsDecrypt(lastCall') /\ lastCall'.key = k /\ Status(lastCall') = "RateLimited")
                 => /\ CountOf(failedAttempts, k) >= MAX_FAILED_ATTEMPTS
                    /\ SameWindow(k)
                    /\ CountOf(failedAttempts', k) = CountOf(failedAttempts, k)
                    /\ now' - RecordOf(failedAttempts', k).firstAttempt <= RATE_LIMIT_WINDOW
          /\ (CountOf(failedAttempts', k) > 0
                  /\ (~SameWindow(k) \/ CountOf(failedAttempts', k) # CountOf(failedAttempts, k)))
                 => /\ IsDecrypt(lastCall') /\ lastCall'.key = k
                    /\ Status(lastCall') = "InvalidOrCorrupted"
                    /\ CountOf(failedAttempts', k)
                           = IF SameWindow(k) THEN CountOf(failedAttempts, k) + 1 ELSE 1
                    /\ ~SameWindow(k) => RecordOf(failedAttempts', k).firstAttempt \in now..now'
    ]_vars

\* A decrypt call with one spelling is rejected on the ten failures of its
\* record, while the other spelling has a running record of its own with
\* fewer than ten failures.
C28_Witness ==
    /\ IsDecrypt(lastCall) /\ lastCall.key = KeyA
    /\ Status(lastCall) = "RateLimited"
    /\ CountOf(failedAttempts, KeyA) = MAX_FAILED_ATTEMPTS
    /\ CountOf(failedAttempts, KeyAUpper) \in 1..(MAX_FAILED_ATTEMPTS - 1)
    /\ now - RecordOf(failedAttempts, KeyAUpper).firstAttempt <= RATE_LIMIT_WINDOW

\* C29: key strings that decode to the same key bytes share one record: when
\* one of them has a record the other has it too, the same count and the
\* same window.
C29_SpellingsShareRecord ==
    \A k1, k2 \in SpellingKeys :
        (FromHex(k1) = FromHex(k2) /\ HasRecord(failedAttempts, k1))
            => /\ HasRecord(failedAttempts, k2)
               /\ RecordOf(failedAttempts, k2) = RecordOf(failedAttempts, k1)

\* C29: a decrypt call made while ten failed calls with a key string that
\* decodes to the same key bytes fall into the running window is rejected.
C29_LockedUnderEverySpelling ==
    \A k1, k2 \in SpellingKeys :
        (/\ IsDecrypt(lastCall) /\ lastCall.key = k2
         /\ FromHex(k1) = FromHex(k2)
         /\ HasRecord(failedAttempts, k1)
         /\ RecordOf(failedAttempts, k1).count >= MAX_FAILED_ATTEMPTS
         /\ now - RecordOf(failedAttempts, k1).firstAttempt <= RATE_LIMIT_WINDOW)
            => Status(lastCall) \in {"RateLimited", "InvalidOrCorrupted"}

\* The key in upper case decrypts its envelope while the record of the key
\* in lower case holds ten failures in a running window.
C29_Witness ==
    /\ IsDecrypt(lastCall) /\ lastCall.key = KeyAUpper
    /\ lastCall.arg = EnvelopeFor(KeyA)
    /\ Status(lastCall) = "ok"
    /\ HasRecord(failedAttempts, KeyA)
    /\ RecordOf(failedAttempts, KeyA).count = MAX_FAILED_ATTEMPTS
    /\ now - RecordOf(failedAttempts, KeyA).firstAttempt <= RATE_LIMIT_WINDOW

(***************************************************************************)
(* Properties of config and configAsync, checked under SpecConfig          *)
(***************************************************************************)
IsConfig(call) == call.op \in {"config", "configAsync"}
\* The keys the step wrote to process.env with a value they did not have.
WrittenKeys ==
    {key \in DOMAIN processEnv' : key \notin DOMAIN processEnv \/ processEnv'[key] # processEnv[key]}

\* C23: a call of config or configAsync writes to process.env no key among
\* '__proto__', 'constructor', 'prototype' and 'NODE_OPTIONS' and no key
\* that does not match ^[A-Za-z_][A-Za-z0-9_]*$, and removes none.
C23_OnlySafeKeysWritten ==
    [][/\ DOMAIN processEnv \subseteq DOMAIN processEnv'
       /\ \A key \in WrittenKeys :
              /\ IsConfig(lastCall')
              /\ key \notin {Name("__proto__"), Name("constructor"), Name("prototype"), Name("NODE_OPTIONS")}
              /\ validKeyPattern(key)
    ]_vars

\* config has returned 'NODE_OPTIONS', 'constructor', 'prototype' and '1K'
\* among the entries of the file, and of these entries process.env has K
\* alone.
C23_Witness ==
    /\ IsConfig(lastCall)
    /\ lastCall.arg.file = LockFile(DangerousEntries)
    /\ {Name("NODE_OPTIONS"), Name("constructor"), Name("prototype"), Str(<<"1", "K">>), Str(<<"K">>)}
           \subseteq DOMAIN lastCall.result.value
    /\ DOMAIN processEnv = {Name("OXOG_ENV_KEY"), Str(<<"K">>)}
    /\ processEnv[Str(<<"K">>)] = Str(<<"b">>)

\* C24: with override false a call leaves every variable of process.env as
\* it is and sets the accepted keys of the file that were absent; with
\* override true every accepted key of the file has the value of the file,
\* and the other variables are as they were.
C24_OverridePolicy ==
    [][IsConfig(lastCall')
          => LET override == lastCall'.arg.override
                 parsed == lastCall'.result.value
                 accepted == {key \in DOMAIN parsed : isValidEnvKey(key)}
             IN  /\ DOMAIN processEnv \subseteq DOMAIN processEnv'
                 /\ DOMAIN processEnv' \subseteq DOMAIN processEnv \cup accepted
                 /\ accepted \subseteq DOMAIN processEnv'
                 /\ \A key \in DOMAIN processEnv' :
                        processEnv'[key] =
                            IF key \in accepted /\ (override \/ key \notin DOMAIN processEnv)
                            THEN parsed[key] ELSE processEnv[key]
    ]_vars

\* config without override has read K=a and L=b while K was set to another
\* value: K keeps its value and L is set.
C24_Witness ==
    /\ IsConfig(lastCall)
    /\ ~lastCall.arg.override
    /\ lastCall.arg.file = LockFile(PlainEntries)
    /\ lastCall.result.value = MapSet(MapSet(<<>>, Str(<<"K">>), Str(<<"a">>)), Str(<<"L">>), Str(<<"b">>))
    /\ processEnv[Str(<<"K">>)] = Str(<<"n">>)
    /\ processEnv[Str(<<"L">>)] = Str(<<"b">>)

\* C25: NODE_DEBUG and NODE_PATH that config returns among the entries of
\* the file are in process.env.
C25_NodeVariablesInjected ==
    \A key \in {Name("NODE_DEBUG"), Name("NODE_PATH")} :
        (IsConfig(lastCall) /\ key \in DOMAIN lastCall.result.value)
            => key \in DOMAIN processEnv

\* config has returned NODE_DEBUG=a and NODE_PATH=b.
C25_Witness ==
    /\ lastCall.op = "config"
    /\ lastCall.result.value =
           MapSet(MapSet(<<>>, Name("NODE_DEBUG"), Str(<<"a">>)), Name("NODE_PATH"), Str(<<"b">>))

\* The call meets one of the failures: no key, no file, an empty file, a
\* file the key does not decrypt, or a key that is locked out.
FailsToLoad(call) ==
    \/ call.key = <<>>
    \/ call.arg.file.kind # "file"
    \/ \A j \in DOMAIN call.arg.file.content : call.arg.file.content[j].t \in WhiteSpace \cup {"lf"}
    \/ call.key # KeyA
    \/ call.arg.file = File(Envelope(TwoFieldPayload, 0))
    \/ CountOf(failedAttempts, call.key) >= MAX_FAILED_ATTEMPTS

\* C26: config and configAsync return an object whatever happens; when the
\* key is not set, the file is missing, unreadable or empty, or decrypt
\* fails, the object is empty and process.env is as it was.
C26_FailuresLoadNothing ==
    [][IsConfig(lastCall')
          => /\ Status(lastCall') = "ok"
             /\ FailsToLoad(lastCall')
                    => /\ lastCall'.result.value = <<>>
                       /\ processEnv' = processEnv
    ]_vars

\* config has been rejected by the rate limiter, or has made the tenth
\* failure, with a key that does not decrypt the file: it returned {}.
C26_Witness ==
    /\ lastCall.op = "config"
    /\ lastCall.key = KeyB
    /\ lastCall.arg.file = LockFile(PlainEntries)
    /\ CountOf(failedAttempts, KeyB) = MAX_FAILED_ATTEMPTS
    /\ lastCall.result = Returned(<<>>)
    /\ DOMAIN processEnv = {Name("OXOG_ENV_KEY")}

====
